---- MODULE Spec2Model ----
(***************************************************************************)
(* Model of the geeTools raster-algebra helpers (TPI.js, utils.js,         *)
(* fire.js, climate.js, radiometricCorrection.js, HLI.js, cloudMasking.js, *)
(* dNBR.js).  The library                                                  *)
(* is stateless: every exported function is meant to be a pure             *)
(* transformation of its arguments.  The state machine therefore records   *)
(* one call made by a caller script at a time: which function was called   *)
(* (op), with which arguments (args), and what it returned (result).       *)
(*                                                                         *)
(* Numbers.  Real-valued rasters are modelled per pixel in fixed point.    *)
(*  - slopePosition: TPI and sd share one unit in which sd is even, so     *)
(*    that sd.multiply(0.5) is exact (Half).                                *)
(*  - tpi: elevation differences are in tenths (TpiScale).                  *)
(*  - times are integer milliseconds relative to an arbitrary epoch.        *)
(* A masked pixel is the empty tuple, a valid pixel with value v is <<v>>.  *)
(* A missing (undefined) optional argument is the empty tuple as well.      *)
(***************************************************************************)
EXTENDS Integers, Sequences, FiniteSets, TLC

VARIABLES op, args, result

vars == <<op, args, result>>

\* ------------------------------------------------------------------ bounds
MaxTpi == 5
MaxHalfSd == 2
MaxSlope == 7
MaxDelta == 30
\* images in the detection catalog of one periodFireBoundary call
MaxImages == 3
\* images in the detection catalog of one periodicFireBoundaries call
MaxSeriesImages == 2
\* intervals generated by one periodicFireBoundaries call
MaxPeriods == 3

\* --------------------------------------------------------------- utilities
Missing == <<>>
Some(x) == <<x>>

\* utils.js isMissing: x === undefined || x === null
isMissing(x) == x = Missing

Abs(n) == IF n < 0 THEN -n ELSE n

\* double -> int conversion of ee.Image.int(): the fraction is dropped
\* (truncation toward zero), n in units of 1/scale.
TruncToInt(n, scale) == IF n >= 0 THEN n \div scale ELSE -((-n) \div scale)

\* ------------------------------------------------------------------ TPI.js
TpiScale == 10

\* Mutant of tpi: the .add(0.5) step is dropped.
tpi_noHalf(d) == TruncToInt(d, TpiScale)

\* exports.tpi, per pixel: d is dem - focal_mean(dem) in tenths;
\* .add(0.5).int()
tpi(d) == TruncToInt(d + (TpiScale \div 2), TpiScale)

\* sd.multiply(0.5) / sd.multiply(-0.5) / sd.multiply(-1)
Half(sd) == sd \div 2

\* flat_degrees = flat_degrees || 5 : undefined and 0 are both falsy
DefaultFlatDegrees == 5
FlatOrDefault(flat_degrees) ==
    IF isMissing(flat_degrees) \/ flat_degrees = Some(0)
    THEN DefaultFlatDegrees
    ELSE flat_degrees[1]

\* ee.Image.where(test, value) at one pixel
Where(img, test, value) == IF test THEN value ELSE img

\* Mutant of IsUpper: the lower bound is closed.
IsUpper_closed(v, sd) == v >= Half(sd) /\ v <= sd

\* The six tests of the reclassification, in source order.
IsRidge(v, sd) == v > sd
IsUpper(v, sd) == v > Half(sd) /\ v <= sd
IsMiddle(v, s, sd, flat) == v > -Half(sd) /\ (v < Half(sd) /\ s > flat)
IsFlat(v, s, sd, flat) == v >= -Half(sd) /\ (v <= Half(sd) /\ s <= flat)
IsLower(v, sd) == v >= -sd /\ v < -Half(sd)
IsValley(v, sd) == v < -sd

\* Mutant of slopePosition: the flat class uses the open bounds of the
\* middle class.
slopePosition_openFlat(v, s, flat_degrees, sd) ==
    LET flat == FlatOrDefault(flat_degrees)
        r0 == 0
        r1 == Where(r0, IsRidge(v, sd), 1)
        r2 == Where(r1, IsUpper(v, sd), 2)
        r3 == Where(r2, IsMiddle(v, s, sd, flat), 3)
        r4 == Where(r3, v > -Half(sd) /\ v < Half(sd) /\ s <= flat, 4)
        r5 == Where(r4, IsLower(v, sd), 5)
        r6 == Where(r5, IsValley(v, sd), 6)
    IN  r6

\* exports.slopePosition at one pixel: v = TPI value, s = slope in degrees,
\* sd = reduceRegion(stdDev) of the TPI band.
slopePosition(v, s, flat_degrees, sd) ==
    LET flat == FlatOrDefault(flat_degrees)
        r0 == 0
        r1 == Where(r0, IsRidge(v, sd), 1)
        r2 == Where(r1, IsUpper(v, sd), 2)
        r3 == Where(r2, IsMiddle(v, s, sd, flat), 3)
        r4 == Where(r3, IsFlat(v, s, sd, flat), 4)
        r5 == Where(r4, IsLower(v, sd), 5)
        r6 == Where(r5, IsValley(v, sd), 6)
    IN  r6

\* ---------------------------------------------------------------- utils.js
\* JavaScript values of the parameter dictionaries are written as strings.
JsValues == {"false", "null", "0", "true", "24"}
Truthy(x) == x \notin {"false", "null", "0", "undefined", ""}

\* A caller-supplied argument in the position of a dictionary is undefined,
\* null, a primitive, or an object with own enumerable properties.
JsUndefined == [kind |-> "undefined"]
JsNull == [kind |-> "null"]
JsBool(b) == [kind |-> "boolean", value |-> b]
JsObject(f) == [kind |-> "object", props |-> f]

\* if (given): undefined, null and false are falsy; every object is truthy
GivenTruthy(given) ==
    \/ given.kind = "object"
    \/ given.kind = "boolean" /\ given.value

\* for (var prop in given): the own enumerable keys; a primitive has none
EnumKeys(given) == IF given.kind = "object" THEN DOMAIN given.props ELSE {}

\* Mutant of updateParameters: a falsy given value does not replace the
\* default (def[prop] = given[prop] || def[prop]).
updateParameters_skipFalsy(def, given) ==
    IF GivenTruthy(given)
    THEN [k \in DOMAIN def \cup EnumKeys(given) |->
            IF k \in EnumKeys(given) /\ (Truthy(given.props[k]) \/ k \notin DOMAIN def)
            THEN given.props[k] ELSE def[k]]
    ELSE def

\* exports.updateParameters
updateParameters(def, given) ==
    IF GivenTruthy(given)
    THEN [k \in DOMAIN def \cup EnumKeys(given) |->
            IF k \in EnumKeys(given) THEN given.props[k] ELSE def[k]]
    ELSE def

\* ----------------------------------------------------- fire.js: the engine
\* Rasters are functions from Pixels to a pixel (Masked or <<value>>).  The
\* pixels lie on a line, so that a kernel of radius r covers the pixels at
\* distance at most r.  All operations but the smoothing are pixel-wise.
Pixels == {1, 2}
Masked == <<>>
Px(v) == <<v>>

MsPerHour == 3600000
MsPerDay == 86400000

Range(f) == {f[i] : i \in DOMAIN f}
MinOf(S) == CHOOSE x \in S : \A y \in S : x <= y
MaxOf(S) == CHOOSE x \in S : \A y \in S : x >= y

\* ee.Image(c): a constant, unmasked image
ConstImage(c) == [p \in Pixels |-> Px(c)]
MaskedImage == [p \in Pixels |-> Masked]

\* The valid values a sequence of rasters holds at pixel p (masked pixels
\* do not take part in a reduction).
PixelValues(imgs, p) ==
    LET valid == SelectSeq(imgs, LAMBDA im : im[p] # Masked)
    IN  [i \in 1..Len(valid) |-> valid[i][p][1]]

CountLE(vals, v) == Cardinality({i \in DOMAIN vals : vals[i] <= v})
CountLT(vals, v) == Cardinality({i \in DOMAIN vals : vals[i] < v})
\* the k-th smallest of a non-empty sequence of values
Kth(vals, k) ==
    CHOOSE v \in Range(vals) : CountLE(vals, v) >= k /\ CountLT(vals, v) < k

\* ee.Reducer.median over values, doubled: the median of an even number of
\* values is the mean of the two middle ones, and twice that is an integer.
Median2(vals) ==
    LET n == Len(vals)
    IN  Kth(vals, (n + 1) \div 2) + Kth(vals, (n \div 2) + 1)

\* ee.ImageCollection.reduce(reducer): pixel-wise over the valid values; a
\* pixel no image has a valid value for is masked (so is every pixel of the
\* reduction of an empty collection).  "median2" yields twice the median.
ReduceCollection(imgs, reducer) ==
    [p \in Pixels |->
        LET vals == PixelValues(imgs, p)
        IN  IF vals = <<>> THEN Masked
            ELSE IF reducer = "min" THEN Px(MinOf(Range(vals)))
            ELSE IF reducer = "max" THEN Px(MaxOf(Range(vals)))
            ELSE Px(Median2(vals))]

\* ee.Image.eq(c), .gt(c), .add(other), .unmask(), .selfMask()
ImgEq(img, c) ==
    [p \in Pixels |-> IF img[p] = Masked THEN Masked
                      ELSE Px(IF img[p][1] = c THEN 1 ELSE 0)]
ImgGt(img, c) ==
    [p \in Pixels |-> IF img[p] = Masked THEN Masked
                      ELSE Px(IF img[p][1] > c THEN 1 ELSE 0)]
ImgAdd(a, b) ==
    [p \in Pixels |-> IF a[p] = Masked \/ b[p] = Masked THEN Masked
                      ELSE Px(a[p][1] + b[p][1])]
Unmask(img) == [p \in Pixels |-> IF img[p] = Masked THEN Px(0) ELSE img[p]]
SelfMask(img) ==
    [p \in Pixels |-> IF img[p] = Masked \/ img[p][1] = 0 THEN Masked ELSE img[p]]

\* ee.Image.reduceNeighborhood(ee.Reducer.mode(), kernel): the most frequent
\* valid value within the kernel radius (the smaller one on a tie); a pixel
\* masked in the input stays masked.
ReduceNeighborhoodMode(img, radius) ==
    [p \in Pixels |->
        IF img[p] = Masked THEN Masked
        ELSE LET near == {q \in Pixels : Abs(q - p) <= radius /\ img[q] # Masked}
                 vals == [v \in {0, 1} |-> Cardinality({q \in near : img[q][1] = v})]
             IN  Px(IF vals[1] > vals[0] THEN 1 ELSE 0)]

\* ee.Kernel.circle(2000, "meters", true) on the 2 km detection grid
DefaultKernelRadius == 1

\* ee.ImageCollection.filterDate(start, end): start inclusive, end exclusive.
\* A collection is a sequence of [time, dqf] images in time order.
filterDate(coll, start, end) ==
    SelectSeq(coll, LAMBDA im : im.time >= start /\ im.time < end)

\* .select("DQF") of every image of a collection
SelectDQF(coll) == [i \in 1..Len(coll) |-> coll[i].dqf]

\* ee.List.sequence(start, end, step), step > 0
SequenceCount(start, end, step) ==
    IF end < start THEN 0 ELSE ((end - start) \div step) + 1
ListSequence(start, end, step) ==
    [i \in 1..SequenceCount(start, end, step) |-> start + (i - 1) * step]

\* ee.Date.format("yyyy_MM_dd_HH:mm:ss"): the text has whole seconds only
FormatDate(ms) == ms \div 1000

\* --------------------------------------------- fire.js: current definitions
\* Mutant of setImageMetadata: the identifier is built from the start date.
setImageMetadata_startId(px, startDate, endDate) ==
    [px |-> px,
     id |-> <<"FireMask/", FormatDate(startDate)>>,
     start_date |-> startDate,
     end_date |-> endDate]

\* setImageMetadata
setImageMetadata(px, startDate, endDate) ==
    [px |-> px,
     id |-> <<"FireMask/", FormatDate(endDate)>>,
     start_date |-> startDate,
     end_date |-> endDate]

\* Mutant of CombineSources: the two source masks are combined with
\* Image.and(), which is masked wherever either input is masked.
CombineSources_and(masks) ==
    [p \in Pixels |->
        IF masks[1][p] = Masked \/ masks[2][p] = Masked THEN Masked
        ELSE Px(IF masks[1][p][1] = 1 /\ masks[2][p][1] = 1 THEN 1 ELSE 0)]

\* ee.ImageCollection(boundaries).reduce(ee.Reducer.min())
CombineSources(masks) == ReduceCollection(masks, "min")

\* Mutant of SourceMask: the per-source reducer is the median.
SourceMask_median(coll, start, end) ==
    ImgEq(ReduceCollection(SelectDQF(filterDate(coll, start, end)), "median2"), 0)

\* The function mapped over [goes16, goes17] in periodFireBoundary
SourceMask(coll, start, end) ==
    ImgEq(ReduceCollection(SelectDQF(filterDate(coll, start, end)), "min"), 0)

\* smoothKernel = smoothKernel ? smoothKernel : ee.Kernel.circle(...)
KernelOrDefault(smoothKernel) ==
    IF isMissing(smoothKernel) THEN DefaultKernelRadius ELSE smoothKernel[1]

\* if (smooth === true) combined = combined.reduceNeighborhood(...)
Smooth(img, smooth, radius) ==
    IF smooth = TRUE THEN ReduceNeighborhoodMode(img, radius) ELSE img

\* exports.periodFireBoundary (fire.js:60); catalog = [g16, g17]
periodFireBoundary(catalog, start, end, smooth, smoothKernel) ==
    LET kernel == KernelOrDefault(smoothKernel)
        boundaries == <<SourceMask(catalog.g16, start, end),
                        SourceMask(catalog.g17, start, end)>>
        combined == Smooth(CombineSources(boundaries), smooth, kernel)
    IN  setImageMetadata(SelfMask(combined), start, end)

\* Mutant of accumulateMask: the previous accumulated mask is not added.
accumulateMask_forget(next, list) ==
    Append(list, setImageMetadata(SelfMask(ImgGt(Unmask(next.px), 0)),
                                  list[1].start_date, next.end_date))

\* accumulateMask (fire.js:118)
accumulateMask(next, list) ==
    LET previous == Unmask(list[Len(list)].px)
        nextU == Unmask(next.px)
        accumulated == SelfMask(ImgGt(ImgAdd(nextU, previous), 0))
        start == list[1].start_date
        end == next.end_date
    IN  Append(list, setImageMetadata(accumulated, start, end))

\* ee.ImageCollection.iterate(accumulateMask, first): a left fold in
\* collection order
RECURSIVE Iterate(_, _)
Iterate(coll, acc) ==
    IF coll = <<>> THEN acc
    ELSE Iterate(Tail(coll), accumulateMask(Head(coll), acc))

DefaultTimeDelta == 24

\* exports.periodicFireBoundaries (fire.js:174)
periodicFireBoundaries(catalog, start, end, optionalParameters) ==
    LET def == [smooth |-> FALSE, smoothKernel |-> Missing,
                timeDelta |-> DefaultTimeDelta, cumulative |-> FALSE]
        params == updateParameters(def, optionalParameters)
        msDelta == params.timeDelta * MsPerHour
        periodList == ListSequence(start, end, msDelta)
        periodCollection ==
            [i \in 1..Len(periodList) |->
                periodFireBoundary(catalog, periodList[i],
                                   periodList[i] + params.timeDelta * MsPerHour,
                                   params.smooth, params.smoothKernel)]
        first == <<[px |-> ConstImage(0), start_date |-> start]>>
        images == IF params.cumulative = TRUE
                  THEN Tail(Iterate(periodCollection, first))
                  ELSE periodCollection
    IN  [images |-> images,
         id |-> <<"FireMaskCollection/", FormatDate(end)>>,
         start_date |-> start,
         end_date |-> end,
         cumulative |-> params.cumulative,
         smoothed |-> params.smooth,
         time_delta |-> params.timeDelta]

\* ----------------------------------------------- fire.js: older definitions
\* The function mapped over [goes16, goes17] in the second periodFireBoundary
\* and in dayFireBoundary: the median DQF of the window equals 0.
SourceMask_old(coll, start, end) ==
    ImgEq(ReduceCollection(SelectDQF(filterDate(coll, start, end)), "median2"), 0)

\* ee.ImageCollection(boundaries).reduce(ee.Reducer.max())
CombineSources_old(masks) == ReduceCollection(masks, "max")

\* if (smooth === true) with the kernel as passed (a caller that smooths
\* passes a kernel; the function itself has no default)
Smooth_old(img, smooth, smoothKernel) ==
    IF smooth = TRUE
    THEN ReduceNeighborhoodMode(img, smoothKernel[1])
    ELSE img

\* exports.periodFireBoundary, second definition (fire.js:388); timeDelta in
\* milliseconds: date.advance(timeDelta / 1000, "seconds")
periodFireBoundary_old(catalog, time, smooth, smoothKernel, timeDelta) ==
    LET boundaries == <<SourceMask_old(catalog.g16, time, time + timeDelta),
                        SourceMask_old(catalog.g17, time, time + timeDelta)>>
        combined == Smooth_old(CombineSources_old(boundaries), smooth, smoothKernel)
    IN  [px |-> SelfMask(combined), date |-> time]

\* exports.dayFireBoundary (part_002:50)
dayFireBoundary(catalog, day, smooth, smoothKernel) ==
    LET dayBoundaries == <<SourceMask_old(catalog.g16, day, day + MsPerDay),
                           SourceMask_old(catalog.g17, day, day + MsPerDay)>>
        combined == Smooth_old(CombineSources_old(dayBoundaries), smooth, smoothKernel)
    IN  [px |-> SelfMask(combined), date |-> day]

\* accumulateMask, second definition (fire.js:436)
accumulateMask_old(next, list) ==
    LET previous == Unmask(list[Len(list)].px)
        nextU == Unmask(next.px)
        accumulated == SelfMask(ImgGt(ImgAdd(nextU, previous), 0))
    IN  Append(list, [px |-> accumulated, date |-> next.date])

RECURSIVE Iterate_old(_, _)
Iterate_old(coll, acc) ==
    IF coll = <<>> THEN acc
    ELSE Iterate_old(Tail(coll), accumulateMask_old(Head(coll), acc))

\* var timeDelta = timeDelta ? timeDelta : 86400000 (undefined and 0 are falsy)
TimeDeltaOrDefault(timeDelta) ==
    IF isMissing(timeDelta) \/ timeDelta = Some(0) THEN MsPerDay ELSE timeDelta[1]

\* exports.periodicFireBoundaries, second definition (fire.js:453)
periodicFireBoundaries_old(catalog, start, end, smooth, smoothKernel, cumulative, timeDelta) ==
    LET kernel == Some(KernelOrDefault(smoothKernel))
        delta == TimeDeltaOrDefault(timeDelta)
        periodList == ListSequence(start, end, delta)
        periodCollection ==
            [i \in 1..Len(periodList) |->
                periodFireBoundary_old(catalog, periodList[i], smooth, kernel, delta)]
        first == <<[px |-> ConstImage(0)]>>
    IN  IF cumulative = TRUE
        THEN Tail(Iterate_old(periodCollection, first))
        ELSE periodCollection

\* ------------------------------------------------------------ input spaces
TpiValues == (-MaxTpi)..MaxTpi
SdValues == {2 * h : h \in 0..MaxHalfSd}
SlopeValues == 0..MaxSlope
FlatValues == {Missing, Some(0), Some(3), Some(5)}
DeltaValues == (-MaxDelta)..MaxDelta

ParamKeys == {"smooth", "timeDelta", "extra"}
Dicts(keys) == UNION {[ks -> JsValues] : ks \in SUBSET keys}
DefaultDicts == Dicts({"smooth", "timeDelta"})
GivenValues == {JsUndefined, JsNull} \cup {JsObject(f) : f \in Dicts(ParamKeys)}

\* Detection catalogs.  Each source holds at most one image per hour of
\* ObsHours; an image has DQF 0 (good quality fire) on its fire pixels and
\* DQF 1 on the others.
ObsHours == <<0, 6, 12>>
Slots == {"g16", "g17"} \X (1..Len(ObsHours))
DqfOf(firePixels) == [p \in Pixels |-> IF p \in firePixels THEN Px(0) ELSE Px(1)]
\* the collection of one source, in time order, from a choice of fire
\* pixels for some of the slots
CollectionOf(src, choice) ==
    LET idx == SelectSeq([i \in 1..Len(ObsHours) |-> i],
                         LAMBDA i : <<src, i>> \in DOMAIN choice)
    IN  [k \in 1..Len(idx) |->
            [time |-> ObsHours[idx[k]] * MsPerHour,
             dqf |-> DqfOf(choice[<<src, idx[k]>>])]]
CatalogOf(choice) ==
    [g16 |-> CollectionOf("g16", choice), g17 |-> CollectionOf("g17", choice)]
CatalogsUpTo(n) ==
    {CatalogOf(c) : c \in UNION {[ss -> SUBSET Pixels] :
                                   ss \in {x \in SUBSET Slots : Cardinality(x) <= n}}}
Catalogs == CatalogsUpTo(MaxImages)
SeriesCatalogs == CatalogsUpTo(MaxSeriesImages)

\* Windows of a single periodFireBoundary call, in hours
WindowHours == {<<0, 12>>, <<6, 12>>}
\* Time ranges of a periodicFireBoundaries call, in hours
RangeHours == {<<0, 6>>, <<0, 12>>, <<6, 6>>, <<6, 12>>}

\* optionalParameters of the current periodicFireBoundaries: missing, an
\* object, or the boolean a caller passes who uses the positional form
OptionSets ==
    {JsUndefined, JsBool(TRUE)} \cup
    {JsObject(f) : f \in UNION {
        [ks -> BOOLEAN] : ks \in SUBSET {"smooth", "cumulative"}}} \cup
    {JsObject([timeDelta |-> d] @@ f) : d \in {6, 12},
        f \in UNION {[ks -> {TRUE}] : ks \in SUBSET {"smooth", "cumulative"}}}
\* positional arguments after the fourth of such a call (README.md:96)
PositionalRest == {<<>>, <<Missing, TRUE, 6>>}

\* timeDelta argument of the older periodicFireBoundaries, in milliseconds
OldTimeDeltas == {Missing, Some(6), Some(6 * MsPerHour)}

\* ----------------------------------------------------------------- actions
Init ==
    /\ op = "none"
    /\ args = Missing
    /\ result = Missing

CallTpi ==
    /\ op = "none"
    /\ \E d \in DeltaValues :
        /\ op' = "tpi"
        /\ args' = [d |-> d]
        /\ result' = tpi(d)

CallSlopePosition ==
    /\ op = "none"
    /\ \E v \in TpiValues, s \in SlopeValues, f \in FlatValues, sd \in SdValues :
        /\ op' = "slopePosition"
        /\ args' = [tpi |-> v, slope |-> s, flat_degrees |-> f, sd |-> sd]
        /\ result' = slopePosition(v, s, f, sd)

CallUpdateParameters ==
    /\ op = "none"
    /\ \E def \in DefaultDicts, given \in GivenValues :
        /\ op' = "updateParameters"
        /\ args' = [def |-> def, given |-> given]
        /\ result' = updateParameters(def, given)

CallPeriodFireBoundary ==
    /\ op = "none"
    /\ \E catalog \in Catalogs, w \in WindowHours, smooth \in BOOLEAN :
        /\ op' = "periodFireBoundary"
        /\ args' = [catalog |-> catalog, start |-> w[1] * MsPerHour,
                    end |-> w[2] * MsPerHour, smooth |-> smooth,
                    smoothKernel |-> Missing]
        /\ result' = periodFireBoundary(catalog, w[1] * MsPerHour,
                                        w[2] * MsPerHour, smooth, Missing)

CallPeriodFireBoundaryOld ==
    /\ op = "none"
    /\ \E catalog \in Catalogs, w \in WindowHours, smooth \in BOOLEAN :
        /\ op' = "periodFireBoundary_old"
        /\ args' = [catalog |-> catalog, time |-> w[1] * MsPerHour,
                    timeDelta |-> (w[2] - w[1]) * MsPerHour, smooth |-> smooth,
                    smoothKernel |-> Some(DefaultKernelRadius)]
        /\ result' = periodFireBoundary_old(catalog, w[1] * MsPerHour, smooth,
                        Some(DefaultKernelRadius), (w[2] - w[1]) * MsPerHour)

CallDayFireBoundary ==
    /\ op = "none"
    /\ \E catalog \in Catalogs, smooth \in BOOLEAN :
        /\ op' = "dayFireBoundary"
        /\ args' = [catalog |-> catalog, day |-> 0, smooth |-> smooth,
                    smoothKernel |-> Some(DefaultKernelRadius)]
        /\ result' = dayFireBoundary(catalog, 0, smooth, Some(DefaultKernelRadius))

CallPeriodicFireBoundaries ==
    /\ op = "none"
    /\ \E catalog \in SeriesCatalogs, r \in RangeHours, opt \in OptionSets,
       rest \in PositionalRest :
        /\ rest # <<>> => opt = JsBool(TRUE)
        /\ SequenceCount(r[1] * MsPerHour, r[2] * MsPerHour,
               updateParameters([timeDelta |-> DefaultTimeDelta], opt).timeDelta
                   * MsPerHour) <= MaxPeriods
        /\ op' = "periodicFireBoundaries"
        /\ args' = [catalog |-> catalog, start |-> r[1] * MsPerHour,
                    end |-> r[2] * MsPerHour, optionalParameters |-> opt,
                    rest |-> rest]
        /\ result' = periodicFireBoundaries(catalog, r[1] * MsPerHour,
                                            r[2] * MsPerHour, opt)

CallPeriodicFireBoundariesOld ==
    /\ op = "none"
    /\ \E catalog \in SeriesCatalogs, r \in RangeHours, smooth \in BOOLEAN,
       cumulative \in BOOLEAN, timeDelta \in OldTimeDeltas :
        /\ SequenceCount(r[1] * MsPerHour, r[2] * MsPerHour,
                         TimeDeltaOrDefault(timeDelta)) <= MaxPeriods
        /\ op' = "periodicFireBoundaries_old"
        /\ args' = [catalog |-> catalog, start |-> r[1] * MsPerHour,
                    end |-> r[2] * MsPerHour, smooth |-> smooth,
                    smoothKernel |-> Missing, cumulative |-> cumulative,
                    timeDelta |-> timeDelta]
        /\ result' = periodicFireBoundaries_old(catalog, r[1] * MsPerHour,
                        r[2] * MsPerHour, smooth, Missing, cumulative, timeDelta)

\* The caller script drops the returned handle; the library keeps nothing.
Return ==
    /\ op # "none"
    /\ op' = "none"
    /\ args' = Missing
    /\ result' = Missing

Next ==
    \/ Return
    \/ CallTpi
    \/ CallSlopePosition
    \/ CallUpdateParameters

Spec == Init /\ [][Next]_vars

\* The calls into fire.js
NextFire ==
    \/ Return
    \/ CallPeriodFireBoundary
    \/ CallPeriodFireBoundaryOld
    \/ CallDayFireBoundary
    \/ CallPeriodicFireBoundaries
    \/ CallPeriodicFireBoundariesOld

SpecFire == Init /\ [][NextFire]_vars

\* ------------------------------------------------------------------ claims
\* The flat threshold the caller asked for: the given value, 5 when omitted.
CallerFlat(f) == IF isMissing(f) THEN DefaultFlatDegrees ELSE f[1]

C2_BoundaryIsUpper ==
    (op = "slopePosition" /\ args.sd > 0 /\ args.tpi = Half(args.sd)
        /\ args.slope > CallerFlat(args.flat_degrees)
        /\ args.slope > FlatOrDefault(args.flat_degrees))
    => result = 2

\* C3: a pixel with TPI exactly sd*0.5 or -sd*0.5 and slope at most
\* flat_degrees is assigned class 4.
C3_BoundaryIsFlat ==
    (op = "slopePosition"
        /\ args.tpi \in {Half(args.sd), -Half(args.sd)}
        /\ args.slope <= CallerFlat(args.flat_degrees))
    => result = 4

C3_Witness ==
    /\ op = "slopePosition"
    /\ args.sd > 0
    /\ args.tpi = -Half(args.sd)
    /\ args.slope <= CallerFlat(args.flat_degrees)
    /\ result = 4

\* C9: updateParameters returns given's value for every key of given (false,
\* null and 0 included), the default for every other key of def, adds the
\* keys of given that def lacks, and returns def unchanged when given is
\* missing.
C9_UpdateParameters ==
    op = "updateParameters" =>
        LET def == args.def
            given == args.given
        IN  IF given.kind \in {"undefined", "null"}
            THEN result = def
            ELSE /\ DOMAIN result = DOMAIN def \cup DOMAIN given.props
                 /\ \A k \in DOMAIN given.props : result[k] = given.props[k]
                 /\ \A k \in DOMAIN def \ DOMAIN given.props : result[k] = def[k]

C9_Witness ==
    /\ op = "updateParameters"
    /\ args.given.kind = "object"
    /\ DOMAIN args.def = {"smooth", "timeDelta"}
    /\ DOMAIN args.given.props = {"smooth", "extra"}
    /\ args.def["smooth"] = "true"
    /\ args.given.props["smooth"] = "false"
    /\ result["smooth"] = "false"
    /\ result["timeDelta"] = args.def["timeDelta"]
    /\ result["extra"] = args.given.props["extra"]

\* floor(n / scale) for n in units of 1/scale
Floor(n, scale) == n \div scale

\* C10: tpi adds 0.5 and truncates toward zero: floor(d + 0.5) for every
\* d >= 0 (2.5 gives 3, 2.4 gives 2), and -2.5 gives -2.
C10_TpiRounding ==
    op = "tpi" =>
        /\ args.d >= 0 => result = Floor(args.d + 5, TpiScale)
        /\ args.d = 25 => result = 3
        /\ args.d = 24 => result = 2
        /\ args.d = -25 => result = -2

C10_Witness ==
    /\ op = "tpi"
    /\ args.d = -25
    /\ result = -2

\* ------------------------------------------------------- claims on fire.js
\* a pixel is in a mask when it is valid with value 1
Marks(img, p) == img.px[p] = Px(1)

\* the valid DQF values of one source at pixel p within [start, end)
WindowValues(coll, start, end, p) ==
    PixelValues(SelectDQF(filterDate(coll, start, end)), p)
MedianIsZero(coll, start, end, p) ==
    LET vals == WindowValues(coll, start, end, p)
    IN  vals # <<>> /\ Median2(vals) = 0
MinIsZero(coll, start, end, p) ==
    LET vals == WindowValues(coll, start, end, p)
    IN  vals # <<>> /\ \E i \in DOMAIN vals : vals[i] = 0
HasObservation(coll, start, end) == filterDate(coll, start, end) # <<>>

\* the window of the single-interval call in args
WinStart ==
    IF op = "periodFireBoundary" THEN args.start
    ELSE IF op = "periodFireBoundary_old" THEN args.time ELSE args.day
WinEnd ==
    IF op = "periodFireBoundary" THEN args.end
    ELSE IF op = "periodFireBoundary_old" THEN args.time + args.timeDelta
    ELSE args.day + MsPerDay
SingleOps == {"periodFireBoundary", "periodFireBoundary_old", "dayFireBoundary"}
Sources == <<"g16", "g17">>

\* the optionalParameters of args with cumulative switched off
NotCumulative(opt) ==
    IF opt.kind = "object"
    THEN JsObject([k \in DOMAIN opt.props |->
                     IF k = "cumulative" THEN FALSE ELSE opt.props[k]])
    ELSE opt
\* the per-interval masks of the periodicFireBoundaries call in args
PerInterval ==
    periodicFireBoundaries(args.catalog, args.start, args.end,
                           NotCumulative(args.optionalParameters)).images

\* C4: with cumulative = true the N per-interval masks give exactly N masks
\* in chronological order, the k-th marks a pixel iff one of the per-interval
\* masks 1..k marks it, and the all-zero seed is not in the output.
C4_CumulativeUnion ==
    (op = "periodicFireBoundaries" /\ result.cumulative = TRUE) =>
        /\ Len(result.images) = Len(PerInterval)
        /\ \A k \in 1..Len(result.images) :
            /\ result.images[k].end_date = PerInterval[k].end_date
            /\ \A p \in Pixels :
                /\ Marks(result.images[k], p)
                    <=> \E j \in 1..k : Marks(PerInterval[j], p)
                /\ result.images[k].px[p] \in {Masked, Px(1)}
        /\ \A k \in 1..(Len(result.images) - 1) :
            result.images[k].end_date < result.images[k + 1].end_date

C4_Witness ==
    /\ op = "periodicFireBoundaries"
    /\ result.cumulative = TRUE
    /\ Len(result.images) >= 3
    /\ \E p \in Pixels :
        /\ Marks(PerInterval[1], p)
        /\ ~Marks(PerInterval[2], p)
        /\ Marks(result.images[2], p)
    /\ \E p \in Pixels : ~Marks(result.images[1], p) /\ Marks(result.images[2], p)

\* C5 as stated: in every definition a pixel is in the interval mask iff
\* for at least one source the median DQF over the interval equals 0.
C5_MedianOrEverywhere ==
    (op \in SingleOps /\ args.smooth = FALSE) =>
        \A p \in Pixels :
            Marks(result, p) <=>
                \E i \in 1..2 :
                    MedianIsZero(args.catalog[Sources[i]], WinStart, WinEnd, p)

\* C5 amended: the older periodFireBoundary and dayFireBoundary use the
\* median per source and OR the sources; the current periodFireBoundary
\* marks a pixel iff some source observed the interval and every source that
\* did has minimum DQF 0.
C5_SourcePolicy ==
    /\ (op \in {"periodFireBoundary_old", "dayFireBoundary"} /\ args.smooth = FALSE) =>
        \A p \in Pixels :
            Marks(result, p) <=>
                \E i \in 1..2 :
                    MedianIsZero(args.catalog[Sources[i]], WinStart, WinEnd, p)
    /\ (op = "periodFireBoundary" /\ args.smooth = FALSE) =>
        \A p \in Pixels :
            Marks(result, p) <=>
                /\ \E i \in 1..2 :
                    HasObservation(args.catalog[Sources[i]], WinStart, WinEnd)
                /\ \A i \in 1..2 :
                    HasObservation(args.catalog[Sources[i]], WinStart, WinEnd)
                        => MinIsZero(args.catalog[Sources[i]], WinStart, WinEnd, p)

C5_Witness ==
    /\ op = "periodFireBoundary"
    /\ args.smooth = FALSE
    /\ \E p \in Pixels :
        /\ Marks(result, p)
        /\ MinIsZero(args.catalog.g16, WinStart, WinEnd, p)
        /\ ~MedianIsZero(args.catalog.g16, WinStart, WinEnd, p)
        /\ ~MedianIsZero(args.catalog.g17, WinStart, WinEnd, p)

\* the mask of one source alone in the current periodFireBoundary
MaskAlone(coll, start, end) ==
    [p \in Pixels |->
        IF WindowValues(coll, start, end, p) = <<>> THEN Masked
        ELSE Px(IF MinIsZero(coll, start, end, p) THEN 1 ELSE 0)]
\* no image of the catalog falls into a window of the call in args
NoObservationInRange ==
    \A i \in 1..2 :
        ~HasObservation(args.catalog[Sources[i]], args.start,
            args.end + result.time_delta * MsPerHour)

\* C6: a source without observation in the interval contributes nothing
\* (the mask is the other source's mask); with both sources empty the mask
\* is all-masked; a cumulative run over N all-empty intervals returns N
\* all-masked rasters.
C6_EmptySources ==
    /\ op = "periodFireBoundary" =>
        LET e16 == ~HasObservation(args.catalog.g16, WinStart, WinEnd)
            e17 == ~HasObservation(args.catalog.g17, WinStart, WinEnd)
            alone(src) == SelfMask(Smooth(MaskAlone(args.catalog[src], WinStart, WinEnd),
                                          args.smooth, DefaultKernelRadius))
        IN  /\ e16 => result.px = alone("g17")
            /\ e17 => result.px = alone("g16")
            /\ (e16 /\ e17) => result.px = MaskedImage
    /\ (op = "periodicFireBoundaries" /\ result.cumulative = TRUE
            /\ NoObservationInRange) =>
        /\ Len(result.images) = SequenceCount(args.start, args.end,
                                              result.time_delta * MsPerHour)
        /\ \A k \in 1..Len(result.images) : result.images[k].px = MaskedImage

C6_Witness ==
    /\ op = "periodicFireBoundaries"
    /\ result.cumulative = TRUE
    /\ NoObservationInRange
    /\ args.catalog.g16 # <<>>
    /\ Len(result.images) >= 2
    /\ \A k \in 1..Len(result.images) : result.images[k].px = MaskedImage

C6_WitnessOneSource ==
    /\ op = "periodFireBoundary"
    /\ ~HasObservation(args.catalog.g16, WinStart, WinEnd)
    /\ \E p \in Pixels : Marks(result, p)

\* the call of README.md:96: positional (start, end, region, smooth,
\* smoothKernel, cumulative, timeDelta) with true, null, true, 6
ReadmeCall ==
    /\ op = "periodicFireBoundaries"
    /\ args.optionalParameters = JsBool(TRUE)
    /\ args.rest = <<Missing, TRUE, 6>>

\* C7: the README call yields smoothed cumulative masks at 6-hour
\* intervals.
C7_ReadmeCallTakesEffect ==
    ReadmeCall =>
        /\ result.smoothed = TRUE
        /\ result.cumulative = TRUE
        /\ result.time_delta = 6
        /\ Len(result.images) = SequenceCount(args.start, args.end, 6 * MsPerHour)

\* C8: every mask covers only time between start and end: each window
\* [t, t + timeDelta) has start <= t and t + timeDelta <= end.
C8_WindowsWithinRange ==
    (op = "periodicFireBoundaries" /\ result.cumulative = FALSE) =>
        \A k \in 1..Len(result.images) :
            /\ args.start <= result.images[k].start_date
            /\ result.images[k].end_date <= args.end

\* C11: tpi returns the elevation difference rounded to the nearest
\* integer: for every difference d, negative ones included, the result r
\* is at most one half away from d (d and the half are in tenths).
C11_NearestInteger ==
    op = "tpi" => Abs(result * TpiScale - args.d) <= TpiScale \div 2

\* ============================================================== climate.js
\* Numbers are held in fixed point, each quantity in its own unit:
\*   specific humidity q in 1/10000, pressure p in Pa, temperature t in
\*   tenths of a degree C, exponents and vapor pressures in 1/Fx, relative
\*   humidity in 1/RhScale percent, wind components and speeds and vapor
\*   pressure deficits in 1/WindScale.
\* An argument is an ee.Image (one pixel of it) or an ee.Number (kind).
Fx == 1000
RhScale == 100
WindScale == 10
ExpOrder == 16

\* quotient of two integers with the fraction dropped
Quot(a, b) ==
    IF (a >= 0) = (b > 0) THEN Abs(a) \div Abs(b) ELSE -(Abs(a) \div Abs(b))

\* ee.Image.divide / ee.Number.divide: "Divides the first value by the
\* second, returning 0 for division by 0."
Divide(a, b) == IF b = 0 THEN 0 ELSE Quot(a, b)

\* exp(), by its power series: the k-th term is the previous one times x / k
RECURSIVE ExpSeries(_, _, _)
ExpSeries(x, k, term) ==
    IF k > ExpOrder THEN 0
    ELSE term + ExpSeries(x, k + 1, Quot(term * x, k * Fx))

Exp(x) == ExpSeries(x, 1, Fx)

\* floor of the square root of n >= 0, by bisection on lo^2 <= n < hi^2
RECURSIVE SqrtSearch(_, _, _)
SqrtSearch(n, lo, hi) ==
    IF hi - lo <= 1 THEN lo
    ELSE LET mid == (lo + hi) \div 2
         IN  IF mid * mid <= n THEN SqrtSearch(n, mid, hi)
             ELSE SqrtSearch(n, lo, mid)

ISqrt(n) == SqrtSearch(n, 0, IF n < 46340 THEN n + 1 ELSE 46341)

\* e.divide(es), in 1/RhScale, with
\*   es = t.multiply(17.67).divide(t.add(243.5)).exp().multiply(6.112)
\*   e = q.multiply(p).divide(q.multiply(0.378).add(0.622)), in Pa
RawHumidity(q, p, t) ==
    LET es == Quot(Exp(Divide(1767 * t * (Fx \div 100), t + 2435)) * 6112, Fx)
        e == Divide(q * p, Quot(q * 378, 1000) + 6220)
    IN  Divide(e * Fx * RhScale, es)

\* ee.Image.clamp / ee.Number.clamp
Clamp(x, low, high) == IF x < low THEN low ELSE IF x > high THEN high ELSE x

\* Mutant of relativeHumidity: the clamp is dropped.
relativeHumidity_noClamp(kind, q, p, t) ==
    [kind |-> kind,
     name |-> IF kind = "Image" THEN Some("RH") ELSE Missing,
     value |-> RawHumidity(q, p, t)]

\* exports.relativeHumidity, clamp-based (ee.Image | ee.Number)
relativeHumidity(kind, q, p, t) ==
    LET RH == Clamp(RawHumidity(q, p, t), 0, 100 * RhScale)
    IN  [kind |-> kind,
         name |-> IF kind = "Image" THEN Some("RH") ELSE Missing,
         value |-> RH]

\* exports.relativeHumidity, where-based (ee.Image arguments)
relativeHumidity_where(q, p, t) ==
    LET RH == RawHumidity(q, p, t)
        r1 == Where(RH, RH < 0, 0)
        r2 == Where(r1, RH > 100 * RhScale, 100 * RhScale)
    IN  [kind |-> "Image", name |-> Some("RH"), value |-> r2]

\* Mutant of windVelocity: the second component is not squared.
windVelocity_noSquare(kind, u, v) ==
    [kind |-> kind,
     name |-> IF kind = "Image" THEN Some("WIND") ELSE Missing,
     value |-> ISqrt(u * u + Abs(v))]

\* exports.windVelocity: u.pow(2).add(v.pow(2)).sqrt()
windVelocity(kind, u, v) ==
    [kind |-> kind,
     name |-> IF kind = "Image" THEN Some("WIND") ELSE Missing,
     value |-> ISqrt(u * u + v * v)]

\* Mutant of hotDryWindyIndex: the wind is taken in place of the product.
hotDryWindyIndex_windOnly(kind, vpd, wind) ==
    [kind |-> kind,
     name |-> IF kind = "Image" THEN Some("HDWI") ELSE Missing,
     value |-> wind * WindScale]

\* exports.hotDryWindyIndex: vpd.multiply(wind); the product of two values
\* in 1/WindScale is in 1/(WindScale * WindScale)
hotDryWindyIndex(kind, vpd, wind) ==
    [kind |-> kind,
     name |-> IF kind = "Image" THEN Some("HDWI") ELSE Missing,
     value |-> vpd * wind]

\* ------------------------------------------------------ climate.js: inputs
MaxWind == 4
MaxVpd == 10
Kinds == {"Image", "Number"}
WindValues == {w * WindScale : w \in (-MaxWind)..MaxWind}
VpdValues == {w * WindScale : w \in 0..MaxVpd}
\* q, p and t of one call
HumidityInputs == {-100, 0, 127, 500} \X {90000, 100000}
                      \X {-2435, -400, 0, 250, 400}

CallRelativeHumidity ==
    /\ op = "none"
    /\ \E kind \in Kinds, i \in HumidityInputs :
        /\ op' = "relativeHumidity"
        /\ args' = [kind |-> kind, q |-> i[1], p |-> i[2], t |-> i[3]]
        /\ result' = relativeHumidity(kind, i[1], i[2], i[3])

CallRelativeHumidityWhere ==
    /\ op = "none"
    /\ \E i \in HumidityInputs :
        /\ op' = "relativeHumidity_where"
        /\ args' = [kind |-> "Image", q |-> i[1], p |-> i[2], t |-> i[3]]
        /\ result' = relativeHumidity_where(i[1], i[2], i[3])

CallWindVelocity ==
    /\ op = "none"
    /\ \E kind \in Kinds, u \in WindValues, v \in WindValues :
        /\ op' = "windVelocity"
        /\ args' = [kind |-> kind, u |-> u, v |-> v]
        /\ result' = windVelocity(kind, u, v)

CallHotDryWindyIndex ==
    /\ op = "none"
    /\ \E kind \in Kinds, vpd \in VpdValues, wind \in VpdValues :
        /\ op' = "hotDryWindyIndex"
        /\ args' = [kind |-> kind, vpd |-> vpd, wind |-> wind]
        /\ result' = hotDryWindyIndex(kind, vpd, wind)

NextClimate ==
    \/ Return
    \/ CallRelativeHumidity
    \/ CallRelativeHumidityWhere
    \/ CallWindVelocity
    \/ CallHotDryWindyIndex

SpecClimate == Init /\ [][NextClimate]_vars

\* ------------------------------------------------------ climate.js: claims
HumidityCall == op \in {"relativeHumidity", "relativeHumidity_where"}

\* ee.Number.round()
Round(n, scale) == Floor(n + scale \div 2, scale)

\* C12: relativeHumidity returns a value in [0, 100]: a raw ratio e / es
\* below 0 yields 0 and one above 100 yields 100, in the where-based and in
\* the clamp-based implementation; the tested call (q = 0.0127, p = 90000,
\* t = 25) rounds to 58.
C12_HumidityRange ==
    HumidityCall =>
        LET raw == RawHumidity(args.q, args.p, args.t)
        IN  /\ 0 <= result.value /\ result.value <= 100 * RhScale
            /\ raw < 0 => result.value = 0
            /\ raw > 100 * RhScale => result.value = 100 * RhScale
            /\ (raw >= 0 /\ raw <= 100 * RhScale) => result.value = raw
            /\ (args.q = 127 /\ args.p = 90000 /\ args.t = 250)
                  => Round(result.value, RhScale) = 58

\* a where-based call whose raw ratio is above 100
C12_Witness ==
    /\ op = "relativeHumidity_where"
    /\ RawHumidity(args.q, args.p, args.t) > 100 * RhScale
    /\ result.value = 100 * RhScale

\* C13: windVelocity(u, v) is the Euclidean norm: it equals
\* windVelocity(-u, -v) and windVelocity(v, u), is never negative, its
\* square is the largest square not above u^2 + v^2, and
\* windVelocity(-3, 4) = 5.
C13_WindNorm ==
    op = "windVelocity" =>
        /\ result = windVelocity(args.kind, -args.u, -args.v)
        /\ result = windVelocity(args.kind, args.v, args.u)
        /\ result.value >= 0
        /\ result.value * result.value <= args.u * args.u + args.v * args.v
        /\ (result.value + 1) * (result.value + 1)
              > args.u * args.u + args.v * args.v
        /\ (args.u = -3 * WindScale /\ args.v = 4 * WindScale)
              => result.value = 5 * WindScale

\* the tested call windVelocity(ee.Number(-3), ee.Number(4))
C13_Witness ==
    /\ op = "windVelocity"
    /\ args.kind = "Number"
    /\ args.u = -3 * WindScale /\ args.v = 4 * WindScale
    /\ result.value = 5 * WindScale

\* C14: hotDryWindyIndex(vpd, wind) is the product vpd * wind, so it is
\* unchanged when the arguments are swapped, it is 0 when either is 0,
\* it grows by vpd when the wind grows by one, and
\* hotDryWindyIndex(10, 10) = 100.
C14_HdwiProduct ==
    op = "hotDryWindyIndex" =>
        /\ result = hotDryWindyIndex(args.kind, args.wind, args.vpd)
        /\ (args.vpd = 0 \/ args.wind = 0) => result.value = 0
        /\ hotDryWindyIndex(args.kind, args.vpd, args.wind + WindScale).value
              = result.value + args.vpd * WindScale
        /\ (args.vpd = 10 * WindScale /\ args.wind = 10 * WindScale)
              => result.value = 100 * WindScale * WindScale

\* the tested call hotDryWindyIndex(ee.Number(10), ee.Number(10))
C14_Witness ==
    /\ op = "hotDryWindyIndex"
    /\ args.kind = "Number"
    /\ args.vpd = 10 * WindScale /\ args.wind = 10 * WindScale
    /\ result.value = 100 * WindScale * WindScale

\* ============================================ fire.js: calculateBurnSeverity
\* One pixel of the pre- and post-fire images: a record of its NIR and SWIR
\* band values.  A computed value is a number or NaN (the square root of a
\* negative number); arithmetic on NaN is NaN and a comparison with NaN is
\* false.  Units: the burn ratios and the RdNBR divisor in 1/Fx, RdNBR in
\* whole units, the radicand of the mortality regression in RadScale units,
\* percentMortality in 1/MortScale.
RadScale == 100
MortScale == 100000000

Num(v) == [nan |-> FALSE, v |-> v]
NaN == [nan |-> TRUE, v |-> 0]

\* img.normalizedDifference([NIR, SWIR]).multiply(1000)
NBR(img) == Divide((img.nir - img.swir) * 1000 * Fx, img.nir + img.swir)

\* RdNBR.multiply(1135360).add(-119487011)
Radicand(RdNBR) ==
    RdNBR * (1135360 \div RadScale)
        + Quot(RdNBR * (1135360 % RadScale), RadScale)
        - (119487011 \div RadScale)

\* .sqrt().multiply(0.00003938).add(-0.22845617)
BasalMortality(RdNBR) ==
    LET r == Radicand(RdNBR)
    IN  IF r < 0 THEN NaN
        ELSE Num(ISqrt(r) * ISqrt(RadScale) * 3938 - 22845617)

\* Mutant of calculateBurnSeverity: refugia as basalMortality.lte(0.1).
calculateBurnSeverity_lte(pre, post) ==
    LET preNBR == NBR(pre)
        postNBR == NBR(post)
        dNBR == preNBR - postNBR
        RdNBR == Divide(dNBR, ISqrt(Abs(preNBR)))
        basalMortality == BasalMortality(RdNBR)
        refugia == IF ~basalMortality.nan /\ basalMortality.v <= MortScale \div 10
                   THEN 1 ELSE 0
    IN  [preNBR |-> Num(preNBR), postNBR |-> Num(postNBR),
         dNBR |-> Num(dNBR), RdNBR |-> Num(RdNBR),
         percentMortality |-> basalMortality, refugia |-> Num(refugia)]

\* exports.calculateBurnSeverity: RdNBR is
\* dNBR.divide(preNBR.divide(1000).abs().sqrt()), refugia is
\* ee.Image(1).where(basalMortality.gt(0.1), 0)
calculateBurnSeverity(pre, post) ==
    LET preNBR == NBR(pre)
        postNBR == NBR(post)
        dNBR == preNBR - postNBR
        RdNBR == Divide(dNBR, ISqrt(Abs(preNBR)))
        basalMortality == BasalMortality(RdNBR)
        refugia == Where(1, ~basalMortality.nan
                             /\ basalMortality.v > MortScale \div 10, 0)
    IN  [preNBR |-> Num(preNBR), postNBR |-> Num(postNBR),
         dNBR |-> Num(dNBR), RdNBR |-> Num(RdNBR),
         percentMortality |-> basalMortality, refugia |-> Num(refugia)]

\* band values of one pixel
MaxBand == 6
BandPixels == [nir : 1..MaxBand, swir : 1..MaxBand]

CallCalculateBurnSeverity ==
    /\ op = "none"
    /\ \E pre \in BandPixels, post \in BandPixels :
        /\ op' = "calculateBurnSeverity"
        /\ args' = [pre |-> pre, post |-> post]
        /\ result' = calculateBurnSeverity(pre, post)

NextBurn ==
    \/ Return
    \/ CallCalculateBurnSeverity

SpecBurn == Init /\ [][NextBurn]_vars

\* --------------------------------------------- calculateBurnSeverity: claims
\* C15: where NIR equals SWIR in the pre-fire image (preNBR = 0) the RdNBR
\* divisor is 0 and the RdNBR pixel of the output is invalid, never a
\* number such as 0.
C15_ZeroDivisorInvalid ==
    (op = "calculateBurnSeverity" /\ args.pre.nir = args.pre.swir) =>
        /\ result.preNBR = Num(0)
        /\ result.RdNBR.nan

\* C16 as stated: refugia is 1 exactly where percentMortality <= 0.1 and 0
\* at every other pixel, the pixels with an invalid percentMortality
\* included.
C16_RefugiaZeroElsewhere ==
    op = "calculateBurnSeverity" =>
        result.refugia =
            IF ~result.percentMortality.nan
               /\ result.percentMortality.v <= MortScale \div 10
            THEN Num(1) ELSE Num(0)

\* C16, amended: refugia is 0 exactly where percentMortality is a valid
\* number above 0.1, and 1 at every other pixel: where percentMortality is
\* at most 0.1 and where it is invalid because the radicand is negative.
C16_RefugiaOneUnlessAbove ==
    op = "calculateBurnSeverity" =>
        /\ result.percentMortality.nan
              = (Radicand(result.RdNBR.v) < 0)
        /\ result.refugia =
              IF ~result.percentMortality.nan
                 /\ result.percentMortality.v > MortScale \div 10
              THEN Num(0) ELSE Num(1)

\* a pixel whose percentMortality is invalid while it burned (dNBR > 0)
C16_Witness ==
    /\ op = "calculateBurnSeverity"
    /\ result.dNBR.v > 0
    /\ result.percentMortality.nan
    /\ result.refugia = Num(1)

C16_WitnessValidLow ==
    /\ op = "calculateBurnSeverity"
    /\ ~result.percentMortality.nan
    /\ result.percentMortality.v <= MortScale \div 10
    /\ result.refugia = Num(1)

C16_WitnessValidHigh ==
    /\ op = "calculateBurnSeverity"
    /\ ~result.percentMortality.nan
    /\ result.percentMortality.v > MortScale \div 10
    /\ result.refugia = Num(0)

\* ================================================= radiometricCorrection.js
\* An image is a sequence of bands; a band maps each pixel of Pixels to
\* Masked or to a value.  Values are exact fractions <<numerator,
\* denominator>> in lowest terms with a positive denominator, so that means
\* and the standard deviations of at most two pixels are exact.  A region
\* (geometry, dark object) is the set of pixels it covers; statistics are
\* taken at the native scale of the image and regions stay below maxPixels.
RECURSIVE GCD(_, _)
GCD(a, b) == IF b = 0 THEN a ELSE GCD(b, a % b)

Rat(n, d) ==
    LET g == GCD(Abs(n), Abs(d))
        s == IF d < 0 THEN -1 ELSE 1
    IN  <<(s * n) \div g, (s * d) \div g>>

RatAdd(a, b) == Rat(a[1] * b[2] + b[1] * a[2], a[2] * b[2])
RatSub(a, b) == Rat(a[1] * b[2] - b[1] * a[2], a[2] * b[2])
RatMul(a, b) == Rat(a[1] * b[1], a[2] * b[2])
\* divide: "returning 0 for division by 0"
RatDivide(a, b) == IF b[1] = 0 THEN Rat(0, 1) ELSE Rat(a[1] * b[2], a[2] * b[1])
\* square root: exact when numerator and denominator are squares, which
\* the variance of at most two values always is; the floor of each otherwise
RatSqrt(a) == Rat(ISqrt(a[1]), ISqrt(a[2]))

\* ee.Image.subtract / multiply / add / divide, band by band and pixel by
\* pixel: the result is masked where either operand is
ImageArith(name, a, b) ==
    [i \in 1..Len(a) |-> [p \in Pixels |->
        IF a[i][p] = Masked \/ b[i][p] = Masked THEN Masked
        ELSE CASE name = "subtract" -> RatSub(a[i][p], b[i][p])
               [] name = "multiply" -> RatMul(a[i][p], b[i][p])
               [] name = "add" -> RatAdd(a[i][p], b[i][p])
               [] OTHER -> RatDivide(a[i][p], b[i][p])]]

\* the unmasked pixels of a band inside a region
ValidIn(band, region) == {p \in region : band[p] # Masked}

RECURSIVE SumOver(_, _)
SumOver(band, S) ==
    IF S = {} THEN Rat(0, 1)
    ELSE LET p == CHOOSE q \in S : TRUE
         IN  RatAdd(band[p], SumOver(band, S \ {p}))

\* ee.Reducer.mean() over the pixels S of a band
Mean(band, S) == RatDivide(SumOver(band, S), Rat(Cardinality(S), 1))

\* ee.Reducer.stdDev() over the pixels S of a band
StdDev(band, S) ==
    LET m == Mean(band, S)
        sq == [p \in S |-> RatMul(RatSub(band[p], m), RatSub(band[p], m))]
    IN  RatSqrt(Mean(sq, S))

\* img.reduceRegion({reducer, geometry, ...}): one value per band, none
\* (a masked constant after toImage) when the region holds no valid pixel
reduceRegion(img, reducer, region) ==
    [i \in 1..Len(img) |->
        LET S == ValidIn(img[i], region)
        IN  IF S = {} THEN Masked
            ELSE IF reducer = "mean" THEN Mean(img[i], S)
            ELSE StdDev(img[i], S)]

\* ee.Dictionary.toImage(img.bandNames()): one constant band per value
toImage(values) == [i \in 1..Len(values) |-> [p \in Pixels |-> values[i]]]

\* exports.reduceImage; a missing geometry is the footprint of the image
reduceImage(img, reducer, geometry) ==
    LET region == IF isMissing(geometry) THEN Pixels ELSE geometry[1]
    IN  toImage(reduceRegion(img, reducer, region))

\* Mutant of darkObjectSubtraction: the offset is not subtracted.
darkObjectSubtraction_keep(img, obj) == img

\* exports.darkObjectSubtraction
darkObjectSubtraction(img, obj) ==
    LET offset == reduceImage(img, "mean", obj)
        imgAdj == ImageArith("subtract", img, offset)
    IN  imgAdj

\* exports.darkObjectSubtraction, older: reduceRegion and toImage in line
darkObjectSubtraction_old(img, obj) ==
    LET offset == reduceRegion(img, "mean", obj)
        offsetImg == toImage(offset)
        imgAdj == ImageArith("subtract", img, offsetImg)
    IN  imgAdj

\* Mutant of linearHistogramMatch: the reference mean is not added.
linearHistogramMatch_noOffset(targetImage, referenceImage, geometry) ==
    LET offsetTarget == reduceImage(targetImage, "mean", geometry)
        rescale == ImageArith("divide", reduceImage(referenceImage, "stdDev", geometry),
                               reduceImage(targetImage, "stdDev", geometry))
    IN  ImageArith("multiply", ImageArith("subtract", targetImage, offsetTarget), rescale)

\* exports.linearHistogramMatch
linearHistogramMatch(targetImage, referenceImage, geometry) ==
    LET offsetTarget == reduceImage(targetImage, "mean", geometry)
        offset == reduceImage(referenceImage, "mean", geometry)
        rescale == ImageArith("divide", reduceImage(referenceImage, "stdDev", geometry),
                               reduceImage(targetImage, "stdDev", geometry))
        rescaledTarget ==
            ImageArith("add", ImageArith("multiply", ImageArith("subtract", targetImage, offsetTarget),
                                   rescale),
                     offset)
    IN  rescaledTarget

\* ----------------------------------------- radiometricCorrection.js: inputs
MaxValue == 2
Bands == [Pixels -> {Masked} \cup {Rat(v, 1) : v \in (-MaxValue)..MaxValue}]
\* the band with every value doubled
Doubled(band) ==
    [p \in Pixels |-> IF band[p] = Masked THEN Masked
                      ELSE RatMul(band[p], Rat(2, 1))]
\* one-band images, and two-band images whose second band is the first doubled
Images == {<<b>> : b \in Bands} \cup {<<b, Doubled(b)>> : b \in Bands}
Geometries == {Missing} \cup {Some(r) : r \in (SUBSET Pixels) \ {{}}}

CallDarkObjectSubtraction ==
    /\ op = "none"
    /\ \E img \in Images, obj \in Geometries :
        /\ op' = "darkObjectSubtraction"
        /\ args' = [img |-> img, obj |-> obj]
        /\ result' = darkObjectSubtraction(img, obj)

CallDarkObjectSubtractionOld ==
    /\ op = "none"
    /\ \E img \in Images, obj \in Geometries \ {Missing} :
        /\ op' = "darkObjectSubtraction_old"
        /\ args' = [img |-> img, obj |-> obj]
        /\ result' = darkObjectSubtraction_old(img, obj[1])

CallLinearHistogramMatch ==
    /\ op = "none"
    /\ \E targetImage \in Images, referenceImage \in Images,
          geometry \in Geometries :
        /\ Len(targetImage) = Len(referenceImage)
        /\ op' = "linearHistogramMatch"
        /\ args' = [targetImage |-> targetImage,
                    referenceImage |-> referenceImage,
                    geometry |-> geometry]
        /\ result' = linearHistogramMatch(targetImage, referenceImage, geometry)

NextRadiometric ==
    \/ Return
    \/ CallDarkObjectSubtraction
    \/ CallDarkObjectSubtractionOld
    \/ CallLinearHistogramMatch

SpecRadiometric == Init /\ [][NextRadiometric]_vars

\* ----------------------------------------- radiometricCorrection.js: claims
RegionOf(geometry) == IF isMissing(geometry) THEN Pixels ELSE geometry[1]
Zero == Rat(0, 1)

DarkObjectCall == op \in {"darkObjectSubtraction", "darkObjectSubtraction_old"}

\* the valid dark-object pixels of band i of the input
DarkPixels(i) == ValidIn(args.img[i], RegionOf(args.obj))

\* C17: in every band with a dark-object mean, every output pixel is the
\* input pixel minus one offset, the same at all pixels, and that offset is
\* the band's mean over the dark object (offset times the number of dark
\* pixels is their sum); when every band's mean is 0 the output is the
\* input.
C17_DarkObjectOffset ==
    DarkObjectCall =>
        /\ \A i \in 1..Len(args.img) : DarkPixels(i) # {} =>
              \A p \in Pixels :
                  /\ (result[i][p] = Masked) = (args.img[i][p] = Masked)
                  /\ args.img[i][p] # Masked =>
                        RatMul(RatSub(args.img[i][p], result[i][p]),
                               Rat(Cardinality(DarkPixels(i)), 1))
                            = SumOver(args.img[i], DarkPixels(i))
        /\ (\A i \in 1..Len(args.img) :
               DarkPixels(i) # {} /\ SumOver(args.img[i], DarkPixels(i)) = Zero)
              => result = args.img

\* a dark object of two pixels with values -1 and 1: the mean is 0
C17_Witness ==
    /\ op = "darkObjectSubtraction"
    /\ Len(args.img) = 2
    /\ args.obj = Some(Pixels)
    /\ args.img[1][1] = Rat(-1, 1) /\ args.img[1][2] = Rat(1, 1)
    /\ result = args.img

\* a dark object of one pixel in an image of two: the other pixel changes
C17_WitnessOffset ==
    /\ op = "darkObjectSubtraction_old"
    /\ args.obj = Some({1})
    /\ args.img[1][1] = Rat(2, 1) /\ args.img[1][2] = Rat(1, 1)
    /\ result[1][2] = Rat(-1, 1)

TargetDeviates(i) ==
    reduceRegion(args.targetImage, "stdDev", RegionOf(args.geometry))[i]
        \notin {Masked, Zero}

\* C18: for every band in which the standard deviation of the target over
\* the geometry is not 0, the mean and the standard deviation of the output
\* over the geometry are those of the reference image.
C18_MatchedStatistics ==
    op = "linearHistogramMatch" =>
        \A i \in 1..Len(args.targetImage) : TargetDeviates(i) =>
            /\ reduceRegion(result, "mean", RegionOf(args.geometry))[i]
                 = reduceRegion(args.referenceImage, "mean",
                                RegionOf(args.geometry))[i]
            /\ reduceRegion(result, "stdDev", RegionOf(args.geometry))[i]
                 = reduceRegion(args.referenceImage, "stdDev",
                                RegionOf(args.geometry))[i]

\* target (0, 1) matched to reference (-2, 2): mean 0, deviation 2
C18_Witness ==
    /\ op = "linearHistogramMatch"
    /\ TargetDeviates(1)
    /\ args.targetImage[1][1] = Rat(0, 1) /\ args.targetImage[1][2] = Rat(1, 1)
    /\ args.referenceImage[1][1] = Rat(-2, 1)
    /\ args.referenceImage[1][2] = Rat(2, 1)
    /\ result[1][1] = Rat(-2, 1) /\ result[1][2] = Rat(2, 1)

\* ================================================================== HLI.js
\* One pixel.  An elevation image is given by what ee.Terrain derives from
\* it at the pixel: slope and aspect in whole degrees.  The latitude of the
\* pixel (ee.Image.pixelLonLat) is in whole degrees; angles in radians and
\* the terms of the index are in 1/Fx.  A call returns an image or throws:
\* the result is [kind |-> "image", ...] or [kind |-> "error", ...].
JsNumber(n) == [kind |-> "number", number |-> n]
JsString(s) == [kind |-> "string", string |-> s]

\* if (v): undefined, null, false, 0 and "" are falsy
JsTruthy(v) ==
    CASE v.kind \in {"undefined", "null"} -> FALSE
      [] v.kind = "boolean" -> v.value
      [] v.kind = "number" -> v.number # 0
      [] v.kind = "string" -> v.string # ""
      [] OTHER -> TRUE

\* isMissing(x): x === undefined || x === null
JsMissing(v) == v.kind \in {"undefined", "null"}

\* String.prototype.toLowerCase on the strings of HemisphereValues
toLowerCase(s) ==
    CASE s = "North" -> "north"
      [] s = "SOUTH" -> "south"
      [] OTHER -> s

\* deg.divide(180 / Math.PI)
deg2rad(deg) == Divide(deg * Fx * Fx, 57296)

FxMul(a, b) == Quot(a * b, Fx)

\* cos() and sin() by their power series: each term is the one two orders
\* below times -x^2 / (k (k - 1))
RECURSIVE TrigSeries(_, _, _)
TrigSeries(x, k, term) ==
    IF k > ExpOrder THEN 0
    ELSE term + TrigSeries(x, k + 2,
                           -Quot(FxMul(term, x) * x, (k + 1) * (k + 2) * Fx))

Cos(x) == TrigSeries(x, 0, Fx)
Sin(x) == TrigSeries(x, 1, x)

\* Equation from McCune 2002 with corrected coefficients from McCune 2007:
\* terrain in degrees, lat in radians; the folded aspect is
\* ee.Terrain.aspect(x).subtract(foldCoeff).abs().multiply(-1).add(180).abs()
HeatLoad(terrain, lat, foldCoeff) ==
    LET slope == deg2rad(terrain.slope)
        aspect == deg2rad(Abs(-Abs(terrain.aspect - foldCoeff) + 180))
        x1 == FxMul(FxMul(Cos(slope), Cos(lat)), 1582)
        x2 == FxMul(FxMul(FxMul(Sin(slope), Sin(lat)), Cos(aspect)), -1500)
        x3 == FxMul(FxMul(Sin(slope), Sin(lat)), -262)
        x4 == FxMul(FxMul(Sin(slope), Sin(aspect)), 607)
    IN  Exp(x1 + x2 + x3 + x4 - 1467)

\* the fold coefficient of a forced hemisphere, or the thrown error:
\* toLowerCase is not a function of a non-string, and
\* ee.Image.constant(undefined) lacks its required argument
ForcedFold(forceHemisphere) ==
    IF forceHemisphere.kind = "string"
       /\ toLowerCase(forceHemisphere.string) \in {"north", "south"}
    THEN [kind |-> "image",
          value |-> IF toLowerCase(forceHemisphere.string) = "north"
                    THEN 225 ELSE 315]
    ELSE [kind |-> "error",
          message |-> <<"Invalid forceHemisphere argument \"",
                        forceHemisphere,
                        "\". Argument must be \"north\", \"south\", or missing.">>]

\* exports.hli of HLI.js (x, forceLatitude, forceHemisphere); srtm is the
\* variable of the enclosing script, latitude that of the pixel
hli_script(srtm, x, latitude, forceLatitude, forceHemisphere) ==
    LET lat == deg2rad(IF ~JsMissing(forceLatitude) THEN forceLatitude.number
                       ELSE latitude)
        fold == IF ~JsMissing(forceHemisphere) THEN ForcedFold(forceHemisphere)
                ELSE [kind |-> "image", value |-> Where(225, lat < 0, 315)]
    IN  IF fold.kind = "error" THEN fold
        ELSE [kind |-> "image", name |-> Missing,
              value |-> HeatLoad(srtm, lat, fold.value)]

\* exports.hli (x, optionalParameters); without a forced hemisphere the
\* fold coefficient is ee.Image(225).where(lat.lt(0), 315)
hli(x, latitude, optionalParameters) ==
    LET params == updateParameters([forceLatitude |-> JsNull,
                                     forceHemisphere |-> JsNull],
                                    optionalParameters)
        lat == deg2rad(IF JsTruthy(params.forceLatitude)
                       THEN params.forceLatitude.number ELSE latitude)
        fold == IF JsTruthy(params.forceHemisphere)
                THEN ForcedFold(params.forceHemisphere)
                ELSE [kind |-> "image", value |-> Where(225, lat < 0, 315)]
    IN  IF fold.kind = "error" THEN fold
        ELSE [kind |-> "image", name |-> Some("HLI"),
              value |-> HeatLoad(x, lat, fold.value)]

\* ---------------------------------------------------------- HLI.js: inputs
Elevations == [slope : {0, 20, 45}, aspect : {0, 90, 225}]
LatitudeValues == {JsNull, JsNumber(0), JsNumber(-40), JsNumber(40)}
HemisphereValues ==
    {JsNull, JsString("north"), JsString("North"), JsString("SOUTH"),
     JsString("east"), JsString(""), JsNumber(0), JsNumber(5),
     JsBool(FALSE), JsBool(TRUE)}
HliOptions ==
    {JsUndefined, JsObject(<<>>)}
    \cup {JsObject([forceLatitude |-> l]) : l \in LatitudeValues}
    \cup {JsObject([forceHemisphere |-> h]) : h \in HemisphereValues}
    \cup {JsObject([forceLatitude |-> l, forceHemisphere |-> h]) :
            l \in LatitudeValues, h \in HemisphereValues}

CallHliScript ==
    /\ op = "none"
    /\ \E srtm \in Elevations, x \in Elevations, latitude \in {-40, 40},
          forceLatitude \in LatitudeValues \cup {JsUndefined},
          forceHemisphere \in HemisphereValues \cup {JsUndefined} :
        /\ op' = "hli_script"
        /\ args' = [srtm |-> srtm, x |-> x, latitude |-> latitude,
                    forceLatitude |-> forceLatitude,
                    forceHemisphere |-> forceHemisphere]
        /\ result' = hli_script(srtm, x, latitude, forceLatitude,
                                forceHemisphere)

CallHli ==
    /\ op = "none"
    /\ \E x \in Elevations, latitude \in {-40, 40},
          optionalParameters \in HliOptions :
        /\ op' = "hli"
        /\ args' = [x |-> x, latitude |-> latitude,
                    optionalParameters |-> optionalParameters]
        /\ result' = hli(x, latitude, optionalParameters)

NextHli ==
    \/ Return
    \/ CallHliScript
    \/ CallHli

SpecHli == Init /\ [][NextHli]_vars

\* ---------------------------------------------------------- HLI.js: claims
HliCall == op \in {"hli_script", "hli"}

\* the forced latitude and hemisphere a call supplies (null when it
\* supplies none)
Supplied(key) ==
    IF op = "hli_script" THEN args[key]
    ELSE IF args.optionalParameters.kind = "object"
            /\ key \in DOMAIN args.optionalParameters.props
         THEN args.optionalParameters.props[key]
         ELSE JsNull

\* the latitude, in degrees, a call asks for: the forced latitude when one
\* is supplied, the latitude of the pixel otherwise.  The two versions
\* agree on it except for a forced latitude of 0.
AskedLatitude ==
    IF JsMissing(Supplied("forceLatitude"))
       \/ (op = "hli" /\ Supplied("forceLatitude") = JsNumber(0))
    THEN args.latitude ELSE Supplied("forceLatitude").number

\* C19: the result depends on the arguments only, and the slope and aspect
\* in the formula are those of the elevation image x: with any value of
\* the script's variable srtm the call returns the same result, which is
\* the index of x's slope and aspect.
C19_ArgumentsOnly ==
    HliCall =>
        /\ op = "hli_script" =>
              \A s \in Elevations :
                  hli_script(s, args.x, args.latitude, args.forceLatitude,
                             args.forceHemisphere) = result
        /\ result.kind = "image" =>
              \E foldCoeff \in {225, 315} :
                  result.value
                      = HeatLoad(args.x, deg2rad(AskedLatitude), foldCoeff)

HemisphereAllowed(v) ==
    v.kind = "string" /\ toLowerCase(v.string) \in {"north", "south"}

\* C20: a call with a supplied forceHemisphere that is neither "north" nor
\* "south" in any case, a non-string included, throws an error naming the
\* value and the allowed values, and returns no image.
C20_InvalidHemisphereThrows ==
    (/\ HliCall
     /\ ~JsMissing(Supplied("forceHemisphere"))
     /\ ~HemisphereAllowed(Supplied("forceHemisphere"))) =>
        /\ result.kind = "error"
        /\ result.message[2] = Supplied("forceHemisphere")

\* C21: whenever forceLatitude is supplied (not undefined or null), the
\* value 0 included, the index is computed with that latitude at the
\* pixel, not with the pixel's own latitude.  (The terrain is the one the
\* version reads: srtm in the script version, x in the other.)
C21_ForcedLatitudeUsed ==
    (/\ HliCall
     /\ ~JsMissing(Supplied("forceLatitude"))
     /\ result.kind = "image") =>
        \E foldCoeff \in {225, 315} :
            result.value
                = HeatLoad(IF op = "hli_script" THEN args.srtm ELSE args.x,
                           deg2rad(Supplied("forceLatitude").number),
                           foldCoeff)


(***************************************************************************)
(* cloudMasking.js: masking by a quality band                              *)
(***************************************************************************)

\* ee.Image.mask(mask) on one band: the mask of the band is replaced by the
\* given one.  A pixel is valid where the mask is valid and non-zero; a
\* pixel that becomes valid and had no value is filled with 0.
SetMask(band, mask) ==
    [p \in DOMAIN band |->
        IF mask[p] = Masked \/ mask[p][1] = 0 THEN Masked
        ELSE IF band[p] = Masked THEN Px(0) ELSE band[p]]

simpleCloudMask_keep(img, maskBand) == [kind |-> "image", bands |-> img]

\* exports.simpleCloudMask.  An image is a function from its band names to
\* the bands; the thrown string is kept as its three concatenated parts.
simpleCloudMask(img, maskBand) ==
    LET band == IF JsTruthy(maskBand) THEN maskBand.string ELSE "QA60"
    IN  IF band \notin DOMAIN img
        THEN [kind |-> "error",
              message |-> <<"Image does not contain a band called \"",
                            band, "\".">>]
        ELSE LET cloudMask == ImgEq(img[band], 0)
             IN  [kind |-> "image",
                  bands |-> [b \in DOMAIN img |-> SetMask(img[b], cloudMask)]]

\* Quality-band values: 0 is clear, bit 10 (1024) is opaque cloud.
QualityBands == [Pixels -> {Masked, Px(0), Px(1024)}]
BandImages ==
    UNION {[names -> QualityBands] : names \in {{"QA60"}, {"B1"}, {"QA60", "B1"}}}
MaskBands == {JsUndefined, JsString("QA60"), JsString("B1"), JsString("SCL")}

CallSimpleCloudMask ==
    /\ op = "none"
    /\ \E img \in BandImages, maskBand \in MaskBands :
        /\ op' = "simpleCloudMask"
        /\ args' = [img |-> img, maskBand |-> maskBand]
        /\ result' = simpleCloudMask(img, maskBand)

NextCloud == CallSimpleCloudMask \/ Return
SpecCloud == Init /\ [][NextCloud]_vars

\* The band the caller asked for: "QA60" when maskBand is omitted.
AskedBand ==
    IF JsMissing(args.maskBand) THEN "QA60" ELSE args.maskBand.string

\* C22: simpleCloudMask throws an error naming the band when the image has
\* no band of that name ("QA60" when maskBand is omitted); otherwise every
\* band of the returned image is valid at exactly the pixels where the mask
\* band is valid and equals 0, and keeps there the value it had.
C22_SimpleCloudMask ==
    op = "simpleCloudMask" =>
        IF AskedBand \notin DOMAIN args.img
        THEN /\ result.kind = "error"
             /\ result.message[2] = AskedBand
        ELSE /\ result.kind = "image"
             /\ DOMAIN result.bands = DOMAIN args.img
             /\ \A b \in DOMAIN args.img, p \in Pixels :
                 /\ result.bands[b][p] # Masked
                        <=> args.img[AskedBand][p] = Px(0)
                 /\ (result.bands[b][p] # Masked /\ args.img[b][p] # Masked)
                        => result.bands[b][p] = args.img[b][p]

\* a call that masks a cloudy pixel and keeps a clear one
C22_Witness ==
    /\ op = "simpleCloudMask"
    /\ result.kind = "image"
    /\ \E p, q \in Pixels :
        /\ args.img[AskedBand][p] = Px(1024) /\ result.bands[AskedBand][p] = Masked
        /\ args.img[AskedBand][q] = Px(0) /\ result.bands[AskedBand][q] # Masked

\* a call that throws for a missing band
C22_WitnessThrows ==
    /\ op = "simpleCloudMask"
    /\ result.kind = "error"
    /\ args.maskBand = JsUndefined


(***************************************************************************)
(* utils.js: normalizeImage                                                *)
(***************************************************************************)
\* The image is a sequence of bands on the cells 1..MaxCells, with the exact
\* fractions of the radiometric section as values.  A geometry is the set of
\* cells it covers.  maxPixels (1e13) exceeds every region here and scale is
\* the native one, so neither changes a statistic.
MaxCells == 3
MaxNorm == 2
Cells == 1..MaxCells
JsGeometry(S) == [kind |-> "geometry", cells |-> S]

RatLE(a, b) == a[1] * b[2] <= b[1] * a[2]

\* img.reduceRegion({reducer: ee.Reducer.min() / max(), geometry, ...}): one
\* value per band over the valid pixels of the region, none when there is no
\* valid pixel; a null geometry is the footprint of the image
reduceRegionExtreme(img, reducer, geometry) ==
    [i \in 1..Len(img) |->
        LET region == IF JsMissing(geometry) THEN Cells ELSE geometry.cells
            vals == {img[i][p] : p \in {q \in region : img[i][q] # Masked}}
        IN  IF vals = {} THEN Masked
            ELSE IF reducer = "min"
                 THEN CHOOSE v \in vals : \A w \in vals : RatLE(v, w)
                 ELSE CHOOSE v \in vals : \A w \in vals : RatLE(w, v)]

\* Mutant of normalizeImage: the minimum is not subtracted.
normalizeImage_noOffset(img, optionalParameters) ==
    LET params == updateParameters([region |-> JsNull, scale |-> JsNull],
                                    optionalParameters)
        min == reduceRegionExtreme(img, "min", params.region)
        max == reduceRegionExtreme(img, "max", params.region)
    IN  [i \in 1..Len(img) |-> [p \in Cells |->
            IF img[i][p] = Masked \/ min[i] = Masked THEN Masked
            ELSE RatDivide(img[i][p], RatSub(max[i], min[i]))]]

\* exports.normalizeImage: img.subtract(min).divide(max.subtract(min)), min
\* and max being constant images (toImage) of the statistics of each band
normalizeImage(img, optionalParameters) ==
    LET params == updateParameters([region |-> JsNull, scale |-> JsNull],
                                    optionalParameters)
        min == reduceRegionExtreme(img, "min", params.region)
        max == reduceRegionExtreme(img, "max", params.region)
    IN  [i \in 1..Len(img) |-> [p \in Cells |->
            IF img[i][p] = Masked \/ min[i] = Masked THEN Masked
            ELSE RatDivide(RatSub(img[i][p], min[i]), RatSub(max[i], min[i]))]]

\* the band with every value negated
Negated(band) ==
    [p \in Cells |-> IF band[p] = Masked THEN Masked
                     ELSE RatSub(Rat(0, 1), band[p])]

\* one-band images, and two-band images whose second band is the first
\* negated; no parameters, or a region of some cells
CallNormalizeImage ==
    /\ op = "none"
    /\ \E band \in [Cells -> {Masked} \cup {Rat(v, 1) : v \in 0..MaxNorm}],
          two \in BOOLEAN,
          optionalParameters \in {JsUndefined} \cup
              {JsObject([region |-> JsGeometry(S)]) : S \in (SUBSET Cells) \ {{}}} :
        /\ op' = "normalizeImage"
        /\ args' = [img |-> IF two THEN <<band, Negated(band)>> ELSE <<band>>,
                    optionalParameters |-> optionalParameters]
        /\ result' = normalizeImage(args'.img, optionalParameters)

NextNormalize == CallNormalizeImage \/ Return
SpecNormalize == Init /\ [][NextNormalize]_vars

\* the cells the statistics of the call are taken over
StatCells ==
    IF args.optionalParameters = JsUndefined THEN Cells
    ELSE args.optionalParameters.props.region.cells
\* the valid values of band i inside the statistics region
StatValues(i) == {args.img[i][p] : p \in {q \in StatCells : args.img[i][q] # Masked}}
IsLeast(i, p) == \A w \in StatValues(i) : RatLE(args.img[i][p], w)
IsGreatest(i, p) == \A w \in StatValues(i) : RatLE(w, args.img[i][p])
InUnit(v) == RatLE(Rat(0, 1), v) /\ RatLE(v, Rat(1, 1))

MaxDay == 5
MaxScenes == 3

\* ee.ImageCollection.filterDate(start, end): start inclusive, end exclusive
filterDays(coll, start, end) ==
    SelectSeq(coll, LAMBDA im : start <= im.DATE_ACQUIRED /\ im.DATE_ACQUIRED < end)

\* ee.ImageCollection.sort("DATE_ACQUIRED", ascending)
RECURSIVE sortByDate(_, _)
sortByDate(coll, ascending) ==
    IF coll = <<>> THEN <<>>
    ELSE LET i == CHOOSE k \in DOMAIN coll : \A j \in DOMAIN coll :
                    IF ascending
                    THEN coll[k].DATE_ACQUIRED <= coll[j].DATE_ACQUIRED
                    ELSE coll[k].DATE_ACQUIRED >= coll[j].DATE_ACQUIRED
             rest == [j \in 1..(Len(coll) - 1) |->
                        IF j < i THEN coll[j] ELSE coll[j + 1]]
         IN  <<coll[i]>> \o sortByDate(rest, ascending)

\* ee.ImageCollection.first(): null for an empty collection
first(coll) == IF coll = <<>> THEN Missing ELSE Some(Head(coll))

\* targetDate.advance(999, 'year') lies beyond every day of the model
FarDays == 1000

getNearestAfterImage(imageCollection, targetDate) ==
    first(sortByDate(filterDays(imageCollection, targetDate,
                                targetDate + FarDays), TRUE))

getNearestBeforeImage(imageCollection, targetDate) ==
    first(sortByDate(filterDays(imageCollection, targetDate - FarDays,
                                targetDate), FALSE))

\* getNearestImage: the outcomes of the call.  When the collection holds no
\* image on one side of the target date, ee.ImageCollection is built from a
\* list with a null element; the service may reject the list or drop the
\* null, so both outcomes are possible.
getNearestImage(imageCollection, targetDate) ==
    LET beforeImage == getNearestBeforeImage(imageCollection, targetDate)
        afterImage == getNearestAfterImage(imageCollection, targetDate)
        nearImages == sortByDate(beforeImage \o afterImage, TRUE)
    IN  IF isMissing(beforeImage) \/ isMissing(afterImage)
        THEN {[kind |-> "error"]} \cup
             {[kind |-> "image", image |-> im] : im \in Range(nearImages)}
        ELSE {[kind |-> "image", image |-> first(nearImages)[1]]}

Days == 0..MaxDay
\* the sequences of at most MaxScenes images of distinct days
RECURSIVE Collections(_)
Collections(n) ==
    IF n = 0 THEN {<<>>}
    ELSE LET shorter == Collections(n - 1)
         IN  shorter \cup
             {Append(c, [DATE_ACQUIRED |-> d]) :
                 c \in {s \in shorter : Len(s) = n - 1}, d \in Days}

CallGetNearestImage ==
    /\ op = "none"
    /\ \E imageCollection \in Collections(MaxScenes), targetDate \in Days :
        /\ \A i, j \in DOMAIN imageCollection :
             imageCollection[i] = imageCollection[j] => i = j
        /\ op' = "getNearestImage"
        /\ args' = [imageCollection |-> imageCollection, targetDate |-> targetDate]
        /\ result' \in getNearestImage(imageCollection, targetDate)

NextNearest == CallGetNearestImage \/ Return
SpecNearest == Init /\ [][NextNearest]_vars

\* C24: getNearestImage returns an image of the collection that no other
\* image of the collection is nearer to the target date than, whether the
\* nearest image lies before or after the target date.
C24_NearestReturned ==
    (op = "getNearestImage" /\ args.imageCollection # <<>>) =>
        /\ result.kind = "image"
        /\ result.image \in Range(args.imageCollection)
        /\ \A other \in Range(args.imageCollection) :
            Abs(result.image.DATE_ACQUIRED - args.targetDate)
                <= Abs(other.DATE_ACQUIRED - args.targetDate)


(***************************************************************************)
(* cloudMasking.js: masking by cloud probability                           *)
(***************************************************************************)
\* The image is a line of cells running west to east, all of them valid: its
\* B8 band, its MEAN_SOLAR_AZIMUTH_ANGLE property and the nominal scale of
\* its projection.  Distances are counted in cells.  An optional argument is
\* a JavaScript value; a number computed by the service (ee.Number) is an
\* object of the client, truthy whatever its value.
EeNumber(n) == [kind |-> "ee.Number", number |-> n]

\* exports.generateCloudMask
generateCloudMask(probability, probabilityThreshold) ==
    [p \in DOMAIN probability |->
        Px(IF probability[p][1] > probabilityThreshold THEN 1 ELSE 0)]

\* cloudMask.directionalDistanceTransform(angle, maxDistance)
\*     .reproject(...).select("distance").mask(): 1 at a cell without cloud
\* that has a cloud cell within maxDistance in the direction of the angle
\* (east of it for an angle within 90 degrees of 0, west of it otherwise).
directionalDistanceTransform(cloudMask, angle, maxDistance) ==
    LET east == (angle % 360) < 90 \/ (angle % 360) > 270
    IN  [p \in DOMAIN cloudMask |->
            Px(IF /\ cloudMask[p][1] = 0
                  /\ \E q \in DOMAIN cloudMask :
                        /\ cloudMask[q][1] # 0
                        /\ IF east THEN q > p ELSE q < p
                        /\ Abs(q - p) <= maxDistance
               THEN 1 ELSE 0)]

\* exports.generateShadowMask.  The result keeps, next to the pixels, the
\* direction of the projection and the scale of the reprojection (the
\* projection's own when the scale argument is undefined).
generateShadowMask(img, cloudMask, shadowNIR, shadowDist, solarAzimuth, scale) ==
    LET darkMask == [p \in DOMAIN img.B8 |->
                        Px(IF img.B8[p][1] < shadowNIR THEN 1 ELSE 0)]
        azimuth == IF JsTruthy(solarAzimuth) THEN solarAzimuth.number
                   ELSE img.MEAN_SOLAR_AZIMUTH_ANGLE
        shadowAz == 90 - azimuth
        shadowProj == directionalDistanceTransform(cloudMask, shadowAz,
                                                   shadowDist * 10)
    IN  [pixels |-> [p \in DOMAIN cloudMask |->
                        Px(shadowProj[p][1] * darkMask[p][1])],
         shadowAz |-> shadowAz,
         scale |-> IF JsMissing(scale) THEN img.nominalScale ELSE scale.number]

\* ee.Image.focal_max(radius) / focal_min(radius), circular kernel in pixels
focal(mask, reducer, radius) ==
    [p \in DOMAIN mask |->
        LET near == {mask[q][1] : q \in {r \in DOMAIN mask : Abs(r - p) <= radius}}
        IN  Px(IF reducer = "max" THEN MaxOf(near) ELSE MinOf(near))]

\* exports.cleanMask: the outcomes of the call.  With a scale computed by
\* the service, (2 * bufferDist) / scale is NaN in the client: the service
\* receives no radius and either rejects the call (Missing) or applies the
\* default radius of focal_max, 1.5 pixels.
cleanMask(mask, bufferDist, scale) ==
    IF scale.kind = "number"
    THEN {focal(focal(mask, "max", Quot(2 * bufferDist, scale.number)), "min", 2)}
    ELSE {Missing, focal(focal(mask, "max", 1), "min", 2)}

\* exports.probabilityCloudMask: the outcomes of the call
probabilityCloudMask(img, probability, probabilityThreshold, bufferDist, scale, maskShadow, shadowNIR, shadowDist) ==
    LET threshold == IF JsTruthy(probabilityThreshold)
                     THEN probabilityThreshold.number ELSE 30
        buffer == IF JsTruthy(bufferDist) THEN bufferDist.number ELSE 15
        scaleUsed == IF JsTruthy(scale) THEN scale ELSE EeNumber(img.nominalScale)
        nir == IF JsTruthy(shadowNIR) THEN shadowNIR.number ELSE 1000
        dist == IF JsTruthy(shadowDist) THEN shadowDist.number ELSE 10
        cloudMask == generateCloudMask(probability, threshold)
        shadowMask == generateShadowMask(img, cloudMask, nir, dist, scaleUsed,
                                         JsUndefined)
        cloudAndShadowMask ==
            [p \in DOMAIN cloudMask |->
                Px(IF cloudMask[p][1] + shadowMask.pixels[p][1] > 0 THEN 1 ELSE 0)]
        mask == [p \in DOMAIN cloudMask |->
                    Px(IF (IF JsTruthy(maskShadow) THEN cloudAndShadowMask
                           ELSE cloudMask)[p][1] = 0 THEN 1 ELSE 0)]
    IN  {IF cleaned = Missing THEN [kind |-> "error"]
         ELSE [kind |-> "image",
               B8 |-> SetMask(img.B8, cleaned),
               shadow |-> [shadowAz |-> shadowMask.shadowAz,
                           scale |-> shadowMask.scale]] :
            cleaned \in cleanMask(mask, buffer, scaleUsed)}

CallProbabilityCloudMask ==
    /\ op = "none"
    /\ \E B8 \in [Cells -> {Px(500), Px(2000)}],
          azimuth \in {150, 300},
          probability \in [Cells -> {Px(0), Px(40), Px(60)}],
          probabilityThreshold \in {JsUndefined, JsNumber(50)},
          bufferDist \in {JsUndefined, JsNumber(5)},
          scale \in {JsUndefined, JsNumber(10), JsNumber(20)},
          maskShadow \in {JsUndefined, JsBool(TRUE)},
          shadowNIR \in {JsUndefined, JsNumber(3000)} :
        /\ op' = "probabilityCloudMask"
        /\ args' = [img |-> [B8 |-> B8, MEAN_SOLAR_AZIMUTH_ANGLE |-> azimuth,
                             nominalScale |-> 10],
                    probability |-> probability,
                    probabilityThreshold |-> probabilityThreshold,
                    bufferDist |-> bufferDist, scale |-> scale,
                    maskShadow |-> maskShadow, shadowNIR |-> shadowNIR,
                    shadowDist |-> JsUndefined]
        /\ result' \in probabilityCloudMask(args'.img, probability,
                                             probabilityThreshold, bufferDist,
                                             scale, maskShadow, shadowNIR,
                                             JsUndefined)

NextProbability == CallProbabilityCloudMask \/ Return
SpecProbability == Init /\ [][NextProbability]_vars

\* C25: when probabilityCloudMask builds the shadow mask, the cloud mask is
\* projected in the direction 90 - MEAN_SOLAR_AZIMUTH_ANGLE of the image, and
\* the projection is reprojected at the scale passed to probabilityCloudMask
\* or defaulted by it (the nominal scale of the image).
C25_ShadowDirectionAndScale ==
    (op = "probabilityCloudMask" /\ result.kind = "image") =>
        /\ result.shadow.shadowAz = 90 - args.img.MEAN_SOLAR_AZIMUTH_ANGLE
        /\ result.shadow.scale = IF JsMissing(args.scale) THEN args.img.nominalScale
                                 ELSE args.scale.number

\* the probability threshold of the call
AskedThreshold ==
    IF JsMissing(args.probabilityThreshold) THEN 30
    ELSE args.probabilityThreshold.number

\* C26: in the image returned by probabilityCloudMask, every pixel whose cloud
\* probability is greater than the threshold is masked out, whatever the
\* shape and size of the cloud, bufferDist and scale.
C26_CloudPixelsMasked ==
    (op = "probabilityCloudMask" /\ result.kind = "image") =>
        \A p \in Cells :
            args.probability[p][1] > AskedThreshold => result.B8[p] = Masked


(***************************************************************************)
(* fire.js: identifiers of the masks of a collection                       *)
(***************************************************************************)
\* exports.periodicFireBoundaries for a timeDelta that is not a whole number
\* of hours.  The interval is given by its length in milliseconds, msDelta =
\* timeDelta * 3.6e6 (fire.js:192), which is also what
\* advance(timeDelta, "hours") adds to the start of a period; smooth and
\* smoothKernel have their defaults.
periodicFireBoundaries_subHour(catalog, start, end, msDelta, cumulative) ==
    LET periodList == ListSequence(start, end, msDelta)
        periodCollection ==
            [i \in 1..Len(periodList) |->
                periodFireBoundary(catalog, periodList[i],
                                   periodList[i] + msDelta, FALSE, Missing)]
        placeholder == <<[px |-> ConstImage(0), start_date |-> start]>>
        images == IF cumulative = TRUE
                  THEN Tail(Iterate(periodCollection, placeholder))
                  ELSE periodCollection
    IN  [images |-> images, cumulative |-> cumulative]

\* intervals of 0.5 s and 1.5 s over ranges of 1 s and 3 s
CallPeriodicFireBoundariesSubHour ==
    /\ op = "none"
    /\ \E catalog \in SeriesCatalogs, end \in {1000, 3000},
          msDelta \in {500, 1500}, cumulative \in BOOLEAN :
        /\ SequenceCount(0, end, msDelta) <= MaxPeriods
        /\ op' = "periodicFireBoundaries_subHour"
        /\ args' = [catalog |-> catalog, start |-> 0, end |-> end,
                    msDelta |-> msDelta, cumulative |-> cumulative]
        /\ result' = periodicFireBoundaries_subHour(catalog, 0, end, msDelta,
                                                    cumulative)

NextFireIds ==
    \/ Return
    \/ CallPeriodicFireBoundaries
    \/ CallPeriodicFireBoundariesSubHour

SpecFireIds == Init /\ [][NextFireIds]_vars

SeriesCall == op \in {"periodicFireBoundaries", "periodicFireBoundaries_subHour"}
DistinctIds ==
    \A i, j \in DOMAIN result.images :
        i # j => result.images[i].id # result.images[j].id
\* the length of an interval of the call, in milliseconds
IntervalMs ==
    IF op = "periodicFireBoundaries" THEN result.time_delta * MsPerHour
    ELSE args.msDelta

JsArray(items) == [kind |-> "array", items |-> items]

\* allowSeveral | false: ToInt32 of the operand, or-ed with 0
BitOrFalse(v) ==
    CASE v.kind = "boolean" -> IF v.value THEN 1 ELSE 0
      [] v.kind = "number" -> v.number
      [] OTHER -> 0

\* exports.itemInList: list.indexOf(item) >= 0, with strict equality
itemInList(item, list) == \E i \in DOMAIN list : list[i] = item

\* The string a value becomes when concatenated to a string, as the sequence
\* of its pieces: a string is itself, null is "null", and an array is the
\* pieces of its items separated by "," with nothing for a null item.
RECURSIVE JoinItems(_)
JoinItems(items) ==
    IF items = <<>> THEN <<>>
    ELSE LET piece == IF Head(items).kind = "string"
                      THEN <<Head(items).string>> ELSE <<>>
         IN  IF Len(items) = 1 THEN piece
             ELSE piece \o <<",">> \o JoinItems(Tail(items))
ToText(v) ==
    CASE v.kind = "string" -> <<v.string>>
      [] v.kind = "array" -> JoinItems(v.items)
      [] OTHER -> <<v.kind>>

\* the value thrown by matchArg
MatchError(arg, choices) ==
    [kind |-> "throw",
     message |-> <<"Argument \"">> \o ToText(arg) \o <<"\" must be in \"">>
                 \o JoinItems(choices) \o <<"\"">>]

\* Mutant of matchArg: an array is checked item by item whatever allowSeveral.
matchArg_anyArray(arg, choices, allowSeveral) ==
    IF arg.kind # "array"
    THEN IF itemInList(arg, choices)
         THEN [kind |-> "return", value |-> arg] ELSE MatchError(arg, choices)
    ELSE IF \A i \in DOMAIN arg.items : itemInList(arg.items[i], choices)
         THEN [kind |-> "return", value |-> arg] ELSE MatchError(arg, choices)

\* exports.matchArg
matchArg(arg, choices, allowSeveral) ==
    LET several == BitOrFalse(allowSeveral)
    IN  IF arg.kind # "array"
        THEN IF itemInList(arg, choices)
             THEN [kind |-> "return", value |-> arg]
             ELSE MatchError(arg, choices)
        ELSE IF several = 1
                /\ \A i \in DOMAIN arg.items : itemInList(arg.items[i], choices)
             THEN [kind |-> "return", value |-> arg]
             ELSE MatchError(arg, choices)

MaxItems == 2
ChoiceItems == {JsString("low"), JsString("mid"), JsString("high")}
ArgItems == ChoiceItems \cup {JsNull}
SeqsUpTo(S, n) == UNION {[1..k -> S] : k \in 0..n}

CallMatchArg ==
    /\ op = "none"
    /\ \E arg \in ArgItems \cup {JsArray(s) : s \in SeqsUpTo(ArgItems, MaxItems)},
          choices \in SeqsUpTo(ChoiceItems, MaxItems) \ {<<>>},
          allowSeveral \in {JsUndefined, JsBool(FALSE), JsBool(TRUE)} :
        /\ op' = "matchArg"
        /\ args' = [arg |-> arg, choices |-> choices, allowSeveral |-> allowSeveral]
        /\ result' = matchArg(arg, choices, allowSeveral)

NextMatch == CallMatchArg \/ Return
SpecMatch == Init /\ [][NextMatch]_vars

\* the argument of the call is acceptable in the sense of the docstring
Acceptable ==
    IF args.arg.kind # "array"
    THEN args.arg \in Range(args.choices)
    ELSE /\ args.allowSeveral = JsBool(TRUE)
         /\ \A item \in Range(args.arg.items) : item \in Range(args.choices)
\* the pieces of msg from position i on start with the pieces of text
HasAt(msg, i, text) ==
    /\ i + Len(text) - 1 <= Len(msg)
    /\ \A k \in 1..Len(text) : msg[i + k - 1] = text[k]

\* C28: matchArg returns arg unchanged when arg is a non-array value in
\* choices, or when allowSeveral is true and arg is an array whose every item
\* is in choices; in every other case (an array with allowSeveral false or
\* omitted included) it throws an error whose text holds arg and choices.
C28_MatchArg ==
    op = "matchArg" =>
        IF Acceptable
        THEN result = [kind |-> "return", value |-> args.arg]
        ELSE /\ result.kind = "throw"
             /\ HasAt(result.message, 2, ToText(args.arg))
             /\ HasAt(result.message, 3 + Len(ToText(args.arg)),
                      JoinItems(args.choices))

\* an array of valid items is refused because allowSeveral is omitted
C28_Witness ==
    /\ op = "matchArg"
    /\ args.arg.kind = "array"
    /\ Len(args.arg.items) = 2
    /\ \A item \in Range(args.arg.items) : item \in Range(args.choices)
    /\ args.allowSeveral = JsUndefined
    /\ result.kind = "throw"


\* The k-th class condition of slopePosition at the pixel of the call.
ClassTest(k) ==
    LET v == args.tpi
        s == args.slope
        sd == args.sd
        flat == FlatOrDefault(args.flat_degrees)
    IN  CASE k = 1 -> IsRidge(v, sd)
          [] k = 2 -> IsUpper(v, sd)
          [] k = 3 -> IsMiddle(v, s, sd, flat)
          [] k = 4 -> IsFlat(v, s, sd, flat)
          [] k = 5 -> IsLower(v, sd)
          [] OTHER -> IsValley(v, sd)

\* C29: for every sd > 0 the six class conditions of slopePosition are
\* pairwise mutually exclusive: no (TPI, slope) pair satisfies two of them,
\* and the class of the pixel is that of the one condition it satisfies,
\* whatever the order of the where-steps.
C29_PairwiseExclusive ==
    (op = "slopePosition" /\ args.sd > 0) =>
        /\ \A j, k \in 1..6 : (ClassTest(j) /\ ClassTest(k)) => j = k
        /\ \A k \in 1..6 : ClassTest(k) => result = k

\* a pixel on the closed bound of the flat class, next to the upper class
C29_Witness ==
    /\ op = "slopePosition"
    /\ args.sd > 0
    /\ args.tpi = Half(args.sd)
    /\ ClassTest(4)
    /\ result = 4


\* The masks of a cumulative series, of either definition of
\* periodicFireBoundaries (an empty sequence for every other call).
CumulativeMasks ==
    IF op = "periodicFireBoundaries" /\ result.cumulative = TRUE
    THEN result.images
    ELSE IF op = "periodicFireBoundaries_old" /\ args.cumulative = TRUE
    THEN result
    ELSE <<>>

\* C30: in cumulative mode the sequence of masks is monotone: a pixel marked
\* as burned in the k-th cumulative mask is marked in every later cumulative
\* mask of the same collection, whatever the per-interval masks that follow.
C30_CumulativeMonotone ==
    \A k, m \in DOMAIN CumulativeMasks :
        k < m => \A p \in Pixels :
            Marks(CumulativeMasks[k], p) => Marks(CumulativeMasks[m], p)

\* a burned pixel is kept through an interval whose own mask is fully masked
C30_Witness ==
    /\ op = "periodicFireBoundaries"
    /\ result.cumulative = TRUE
    /\ Len(result.images) >= 2
    /\ PerInterval[2].px = MaskedImage
    /\ \E p \in Pixels :
        Marks(result.images[1], p) /\ Marks(result.images[2], p)

====
